---- MODULE Spec2Model ----
(***************************************************************************)
(* A model of confluo (src/confluo): the Service class of core.py with its *)
(* route tables, its table of command/response transactions and its three  *)
(* consumer callbacks, the message models of models.py, the helper of      *)
(* helpers.py, and the AMQP broker the services talk through.              *)
(*                                                                         *)
(* Python values are tagged tuples, strings are sequences of characters,   *)
(* JSON text is a tree of tagged tuples.  A uuid4 is a number that was     *)
(* never handed out before; 0 stands for an absent correlation id and <<>> *)
(* for an absent reply_to.                                                 *)
(***************************************************************************)
EXTENDS Integers, Sequences, FiniteSets, TLC

VARIABLES
    command_routes,       \* Service.command_routes, per instance: path -> handler
    event_routes,         \* Service.event_routes, per instance: path -> handler
    command_transactions, \* Service.command_transactions, per instance: message id -> transaction object
    connect_pc,           \* how far Service.connect has come, per instance
    subscribed,           \* per instance: the event routes the loop of connect went through
    bindings,             \* broker: the set of <<exchange, routing key, queue>>
    consumers,            \* broker: the set of <<queue, instance, callback>>
    queues,               \* broker: queue name -> sequence of deliveries
    calls,                \* the Service.call coroutines: sequence of records
    transactions,         \* the CommandTransaction objects, one per call that registered one
    command_task,         \* per instance: the _on_command invocation waiting for its handler
    event_task,           \* per instance: the _on_event invocation waiting for its handler
    handler_calls,        \* how often each handler was invoked with which arguments
    callback_errors,      \* the <<instance, callback, exception>> that left a consumer callback
    warnings,             \* the <<instance, callback, key>> of every logger.warning
    correlated,           \* every <<instance, correlation id, Response>> _on_response stored
    registered,           \* outcome of the last route()/subscribe() decorator call
    published,            \* every Service.publish so far, in order
    uuid_count,           \* uuid4 values handed out so far
    foreign_count,        \* deliveries published by parties other than the services
    name,                 \* Service.name, per instance
    sent,                 \* every Response _on_command published, in order
    resources,            \* per instance: the connections connect opened, oldest first
    released,             \* per instance: the connections shutdown closed, in order
    shutdown_pc,          \* how far Service.shutdown has come, per instance
    message,              \* a message model and its kind, as built by __init__
    wire,                 \* an AMQP payload: str(message), or one that was received
    loaded,               \* what loads made of the payload
    path_in,              \* an argument of path_to_routing_key
    key_out               \* what path_to_routing_key returned for it

vars == <<command_routes, event_routes, command_transactions, connect_pc, subscribed,
          bindings, consumers, queues, calls, transactions, command_task, event_task,
          handler_calls, callback_errors, warnings, correlated, registered,
          published, uuid_count, foreign_count, name, sent, resources, released,
          shutdown_pc, message, wire, loaded, path_in, key_out>>

\* The variables of the codec and helper runs, and those of shutdown.
codec_vars == <<message, wire, loaded, path_in, key_out>>
shutdown_vars == <<resources, released, shutdown_pc>>

\* The variables of the services and the broker.
service_vars == <<command_routes, event_routes, command_transactions, connect_pc,
                  subscribed, bindings, consumers, queues, calls, transactions,
                  command_task, event_task, handler_calls, callback_errors, warnings,
                  correlated, registered, published, uuid_count, foreign_count, name,
                  sent, shutdown_vars>>

-----------------------------------------------------------------------------
(* Bounds of the model. *)

MaxCalls == 2
MaxForeign == 1
MaxPublish == 1
MaxRegistrations == 2
MaxPathLen == 6

-----------------------------------------------------------------------------
(* Python values and strings. *)

PyNone == <<"none">>
PyStr(s) == <<"str", s>>
PyInt(n) == <<"int", n>>
PyTuple(xs) == <<"tuple", xs>>
PyList(xs) == <<"list", xs>>
PyDict(kvs) == <<"dict", kvs>>
PyResponse(values) == <<"Response", values>>

NoId == 0
NoReplyTo == <<>>

\* No codec or helper run has set the variable.
NoRun == <<>>

\* "/first/cmd" and "/foo/bar" of examples/services.py, shortened to one letter a level.
PathCmd == <<"/", "f", "/", "c">>
PathEvt == <<"/", "f", "/", "b">>
Paths == {PathCmd, PathEvt}

BodyIn == PyDict(<< <<"data", PyStr(<<"i">>)>> >>)
BodyOut == PyDict(<< <<"data", PyStr(<<"X">>)>> >>)
BodyEvt == PyStr(<<"w">>)

-----------------------------------------------------------------------------
(* models.py: the message models and their codec. *)

CommandFields == <<"path", "query", "body", "headers">>
ResponseFields == <<"path", "body", "status_code", "headers">>
EventFields == <<"path", "body", "headers">>

Command(path, query, body, headers) ==
    [path |-> path, query |-> query, body |-> body, headers |-> headers]

Response(path, body, status_code, headers) ==
    [path |-> path, body |-> body, status_code |-> status_code, headers |-> headers]

Event(path, body, headers) ==
    [path |-> path, body |-> body, headers |-> headers]

\* json.dumps of a Python value: None is null, a tuple and a list are both an array.
RECURSIVE JsonDumps(_)
JsonDumps(v) ==
    CASE v[1] = "none" -> <<"null">>
      [] v[1] = "str" -> <<"string", v[2]>>
      [] v[1] = "int" -> <<"number", v[2]>>
      [] v[1] \in {"tuple", "list"} ->
            <<"array", [i \in 1..Len(v[2]) |-> JsonDumps(v[2][i])]>>
      [] v[1] = "dict" ->
            <<"object", [i \in 1..Len(v[2]) |-> <<v[2][i][1], JsonDumps(v[2][i][2])>>]>>

\* json.loads of a JSON text: null is None, an array is a list, an object a dict.
RECURSIVE JsonLoads(_)
JsonLoads(j) ==
    CASE j[1] = "null" -> PyNone
      [] j[1] = "string" -> PyStr(j[2])
      [] j[1] = "number" -> PyInt(j[2])
      [] j[1] = "array" -> PyList([i \in 1..Len(j[2]) |-> JsonLoads(j[2][i])])
      [] j[1] = "object" ->
            PyDict([i \in 1..Len(j[2]) |-> <<j[2][i][1], JsonLoads(j[2][i][2])>>])

ModelStrDropNone(fields, values) ==
    <<"object",
      [i \in 1..Len(SelectSeq(fields, LAMBDA f : values[f] # PyNone)) |->
        <<SelectSeq(fields, LAMBDA f : values[f] # PyNone)[i],
          JsonDumps(values[SelectSeq(fields, LAMBDA f : values[f] # PyNone)[i]])>>]>>

\* ProtocolModel.__str__: the values dict as JSON, keys in the order __init__ gave them.
ModelStr(fields, values) ==
    <<"object", [i \in 1..Len(fields) |-> <<fields[i], JsonDumps(values[fields[i]])>>]>>

\* dict lookup: whether the key is there, and the value of its last occurrence.
DictHas(kvs, k) == \E i \in 1..Len(kvs) : kvs[i][1] = k

DictGet(kvs, k) ==
    LET last == CHOOSE i \in 1..Len(kvs) :
                    /\ kvs[i][1] = k
                    /\ \A j \in (i + 1)..Len(kvs) : kvs[j][1] # k
    IN kvs[last][2]

verify_dataFillNone(fields, payload_data) ==
    [raised |-> FALSE, field |-> "",
     values |-> [f \in {fields[i] : i \in 1..Len(fields)} |->
                   IF DictHas(payload_data[2], f)
                   THEN DictGet(payload_data[2], f)
                   ELSE PyNone]]

\* ProtocolModel.verify_data: the first field of FIELDS the payload lacks raises
\* ServiceError("Missing '<field>' field in message."); else the FIELDS values.
verify_data(fields, payload_data) ==
    LET missing == {i \in 1..Len(fields) : ~DictHas(payload_data[2], fields[i])}
        first == CHOOSE i \in missing : \A j \in missing : i <= j
    IN IF missing # {}
       THEN [raised |-> TRUE, field |-> fields[first], values |-> <<>>]
       ELSE [raised |-> FALSE, field |-> "",
             values |-> [f \in {fields[i] : i \in 1..Len(fields)} |->
                           DictGet(payload_data[2], f)]]

\* ProtocolModel.loads: parse the payload, verify it, build the model.
loadsAllMembers(fields, payload) ==
    LET payload_data == JsonLoads(payload)
    IN [raised |-> FALSE, field |-> "",
        values |-> [f \in {payload_data[2][k][1] : k \in 1..Len(payload_data[2])} |->
                      DictGet(payload_data[2], f)]]

loads(fields, payload) == verify_data(fields, JsonLoads(payload))

\* A JSON object without the member of that name.
DropField(text, f) == <<"object", SelectSeq(text[2], LAMBDA kv : kv[1] # f)>>

\* A JSON object with one more member.
ExtraField(text, f) == <<"object", Append(text[2], <<f, <<"null">>>>)>>

-----------------------------------------------------------------------------
(* helpers.py *)

RECURSIVE path_to_routing_keyStripAll(_)
path_to_routing_keyStripAll(path) ==
    IF Len(path) > 0 /\ path[1] = "/"
    THEN path_to_routing_keyStripAll(Tail(path))
    ELSE [i \in 1..Len(path) |-> IF path[i] = "/" THEN "." ELSE path[i]]

path_to_routing_key(path) ==
    LET p == IF Len(path) > 0 /\ path[1] = "/" THEN Tail(path) ELSE path
    IN [i \in 1..Len(p) |-> IF p[i] = "/" THEN "." ELSE p[i]]

-----------------------------------------------------------------------------
(* The services of the model and their handlers. *)

Instances == {"a1", "b1"}

ServiceName(i) == name[i]

ServiceNames == {ServiceName(i) : i \in Instances}

rpc_exchange_name == "rpc"
event_exchange_name == "events"

response_queue_nameOfService(i) == <<ServiceName(i), "responses">>

\* Service.__init__: the three queue names; the uuid4 of the response queue is
\* the instance itself, no two instances drawing the same one.
command_queue_name(i) == <<ServiceName(i)>>
response_queue_name(i) == <<ServiceName(i), "responses", i>>
event_queue_name(i) == <<ServiceName(i), "events">>

QueueNames ==
    {command_queue_name(i) : i \in Instances}
        \cup {response_queue_name(i) : i \in Instances}
        \cup {event_queue_name(i) : i \in Instances}

\* What a handler returns for a command: first_cmd a bare body (examples/services.py),
\* tuple_cmd a (body, status_code, headers) tuple, response_cmd a Response of its own,
\* pair_cmd a tuple of two.
CommandHandlers == {"first_cmd", "tuple_cmd", "response_cmd", "pair_cmd"}
EventHandlers == {"foo_bar", "other_evt"}

StatusOk == 200

HandlerReturn(func, path, query, headers, body) ==
    CASE func = "first_cmd" -> BodyOut
      [] func = "tuple_cmd" -> PyTuple(<<body, PyInt(404), PyNone>>)
      [] func = "response_cmd" ->
            PyResponse(Response(PyStr(PathEvt), BodyOut, PyInt(201), PyNone))
      [] func = "pair_cmd" -> PyTuple(<<body, PyInt(404)>>)
      [] OTHER -> PyNone

-----------------------------------------------------------------------------
(* The broker: exchanges route a published message to every queue bound with *)
(* the message's routing key (direct: equal keys; topic: the keys of the     *)
(* model hold no wildcard, so a pattern matches the equal key only); a       *)
(* message no binding matches is dropped.                                    *)

Delivery(payload, reply_to, correlation_id) ==
    [payload |-> payload, reply_to |-> reply_to, correlation_id |-> correlation_id]

basic_publish(qs, exchange_name, routing_key, delivery) ==
    [q \in DOMAIN qs |->
        IF <<exchange_name, routing_key, q>> \in bindings
        THEN Append(qs[q], delivery)
        ELSE qs[q]]

\* No callback of the connection is waiting for a handler.
Idle == <<>>

AwaitingAny(i, callback) == command_task[i] # Idle \/ event_task[i] # Idle

\* connect opens a connection of its own for each of the three consumers
\* (lines 93, 105, 117); a connection awaits the callback it has started before
\* it reads on, and _on_response never waits for a handler.
Awaiting(i, callback) ==
    CASE callback = "_on_command" -> command_task[i] # Idle
      [] callback = "_on_event" -> event_task[i] # Idle
      [] callback = "_on_response" -> FALSE

\* A consumer callback is started for the delivery at the head of its queue.
CanConsume(i, queue_name, callback) ==
    /\ <<queue_name, i, callback>> \in consumers
    /\ queues[queue_name] # <<>>
    /\ ~Awaiting(i, callback)

-----------------------------------------------------------------------------
(* dict operations *)

DictSet(d, k, v) == [x \in DOMAIN d \cup {k} |-> IF x = k THEN v ELSE d[x]]

DictDel(d, k) == [x \in DOMAIN d \ {k} |-> d[x]]

Count(bag, e) == IF e \in DOMAIN bag THEN bag[e] ELSE 0

CountUp(bag, e) == DictSet(bag, e, Count(bag, e) + 1)

-----------------------------------------------------------------------------
(* Service.route and Service.subscribe: the decorator applied to func. *)

RegisterOverwrite(table, path, func) ==
    [raised |-> FALSE, table |-> DictSet(table, path, func)]

Register(table, path, func) ==
    IF path \in DOMAIN table
    THEN [raised |-> TRUE, table |-> table]
    ELSE [raised |-> FALSE, table |-> DictSet(table, path, func)]

\* The table a registration goes to: route writes command_routes (line 305),
\* subscribe writes event_routes (line 337).
RouteTableShared(i, kind) ==
    [p \in DOMAIN command_routes[i] \cup DOMAIN event_routes[i] |->
        IF p \in DOMAIN command_routes[i]
        THEN command_routes[i][p]
        ELSE event_routes[i][p]]

RouteTable(i, kind) ==
    IF kind = "route" THEN command_routes[i] ELSE event_routes[i]

\* What subscribe binds at the broker: the decorator stores the handler and
\* calls no queue_bind, connected or not.
SubscribeBindingsWhenConnected(i, path) ==
    IF connect_pc[i] = "connected"
    THEN {<<event_exchange_name, path_to_routing_key(path), event_queue_name(i)>>}
    ELSE {}

SubscribeBindings(i, path) == {}

route(i, path, func) ==
    LET r == Register(RouteTable(i, "route"), path, func)
    IN /\ registered[1] < MaxRegistrations
       /\ command_routes' = [command_routes EXCEPT ![i] = r.table]
       /\ registered' = <<registered[1] + 1, i, "route", path, func,
                          IF r.raised THEN "ServiceError" ELSE "">>
       /\ UNCHANGED <<name, sent, codec_vars, shutdown_vars,
                      event_routes, command_transactions, connect_pc, subscribed, bindings,
                      consumers, queues, calls, transactions, command_task,
                      event_task, handler_calls, callback_errors, warnings, correlated,
                      published, uuid_count, foreign_count>>

subscribe(i, path, func) ==
    LET r == Register(RouteTable(i, "subscribe"), path, func)
    IN /\ registered[1] < MaxRegistrations
       /\ event_routes' = [event_routes EXCEPT ![i] = r.table]
       /\ bindings' = bindings \cup SubscribeBindings(i, path)
       /\ registered' = <<registered[1] + 1, i, "subscribe", path, func,
                          IF r.raised THEN "ServiceError" ELSE "">>
       /\ UNCHANGED <<name, sent, codec_vars, shutdown_vars,
                      command_routes, command_transactions, connect_pc, subscribed,
                      consumers, queues, calls, transactions, command_task,
                      event_task, handler_calls, callback_errors, warnings, correlated,
                      published, uuid_count, foreign_count>>

-----------------------------------------------------------------------------
(* Service.connect, one step per connection it sets up. *)

\* Lines 97-100, 108-112 and 120-129: what each section binds and consumes.
CommandBindings(i) ==
    {<<rpc_exchange_name, command_queue_name(i), command_queue_name(i)>>}

ResponseBindingsByService(i) ==
    {<<rpc_exchange_name, command_queue_name(i), response_queue_name(i)>>}

ResponseBindings(i) ==
    {<<rpc_exchange_name, response_queue_name(i), response_queue_name(i)>>}

EventBindingsUntranslated(i, routes) ==
    {<<event_exchange_name, r, event_queue_name(i)>> : r \in DOMAIN routes}

EventBindings(i, routes) ==
    {<<event_exchange_name, path_to_routing_key(r), event_queue_name(i)>> :
        r \in DOMAIN routes}

CommandConsumer(i) == <<command_queue_name(i), i, "_on_command">>
ResponseConsumer(i) == <<response_queue_name(i), i, "_on_response">>
EventConsumer(i) == <<event_queue_name(i), i, "_on_event">>

connect_command(i) ==
    /\ connect_pc[i] = "new"
    /\ connect_pc' = [connect_pc EXCEPT ![i] = "command"]
    /\ bindings' = bindings \cup CommandBindings(i)
    /\ resources' = [resources EXCEPT ![i] = Append(@, "command")]
    /\ consumers' = consumers \cup {CommandConsumer(i)}
    /\ UNCHANGED <<name, sent, codec_vars, released, shutdown_pc,
                   command_routes, event_routes, command_transactions, subscribed,
                   queues, calls, transactions, command_task, event_task,
                   handler_calls, callback_errors, warnings, correlated, registered,
                   published, uuid_count, foreign_count>>

connect_response(i) ==
    /\ connect_pc[i] = "command"
    /\ connect_pc' = [connect_pc EXCEPT ![i] = "response"]
    /\ bindings' = bindings \cup ResponseBindings(i)
    /\ resources' = [resources EXCEPT ![i] = Append(@, "response")]
    /\ consumers' = consumers \cup {ResponseConsumer(i)}
    /\ UNCHANGED <<name, sent, codec_vars, released, shutdown_pc,
                   command_routes, event_routes, command_transactions, subscribed,
                   queues, calls, transactions, command_task, event_task,
                   handler_calls, callback_errors, warnings, correlated, registered,
                   published, uuid_count, foreign_count>>

connect_event(i) ==
    /\ connect_pc[i] = "response"
    /\ connect_pc' = [connect_pc EXCEPT ![i] = "connected"]
    /\ resources' = [resources EXCEPT ![i] = Append(@, "event")]
    /\ consumers' = consumers \cup {EventConsumer(i)}
    /\ bindings' = bindings \cup EventBindings(i, event_routes[i])
    /\ subscribed' = [subscribed EXCEPT ![i] = DOMAIN event_routes[i]]
    /\ UNCHANGED <<name, sent, codec_vars, released, shutdown_pc,
                   command_routes, event_routes, command_transactions, queues, calls,
                   transactions, command_task, event_task, handler_calls,
                   callback_errors, warnings, correlated, registered, published, uuid_count,
                   foreign_count>>

-----------------------------------------------------------------------------
(* Service.shutdown, one step per connection it closes.  A protocol's close() *)
(* raises when its connection is lost already; before connect the protocol is *)
(* None and close() raises AttributeError.  What is raised leaves shutdown.    *)

\* The connection connect opened and shutdown has not closed.
IsOpen(i, r) ==
    /\ \E k \in 1..Len(resources[i]) : resources[i][k] = r
    /\ \A k \in 1..Len(released[i]) : released[i][k] # r

\* Lines 366-368.
shutdown_command(i, fails) ==
    /\ shutdown_pc[i] = "idle"
    /\ connect_pc[i] \in {"new", "connected"}
    /\ IF connect_pc[i] = "new" \/ fails
       THEN /\ shutdown_pc' = [shutdown_pc EXCEPT ![i] = "failed"]
            /\ UNCHANGED <<released, consumers>>
       ELSE /\ shutdown_pc' = [shutdown_pc EXCEPT ![i] = "command"]
            /\ released' = [released EXCEPT ![i] = Append(@, "command")]
            /\ consumers' = consumers \ {CommandConsumer(i)}
    /\ UNCHANGED <<name, sent, codec_vars, resources,
                   command_routes, event_routes, command_transactions, connect_pc,
                   subscribed, bindings, queues, calls, transactions, command_task,
                   event_task, handler_calls, callback_errors, warnings, correlated,
                   registered, published, uuid_count, foreign_count>>

\* Lines 371-373.
shutdown_response(i, fails) ==
    /\ shutdown_pc[i] = "command"
    /\ IF fails
       THEN /\ shutdown_pc' = [shutdown_pc EXCEPT ![i] = "failed"]
            /\ UNCHANGED <<released, consumers>>
       ELSE /\ shutdown_pc' = [shutdown_pc EXCEPT ![i] = "response"]
            /\ released' = [released EXCEPT ![i] = Append(@, "response")]
            /\ consumers' = consumers \ {ResponseConsumer(i)}
    /\ UNCHANGED <<name, sent, codec_vars, resources,
                   command_routes, event_routes, command_transactions, connect_pc,
                   subscribed, bindings, queues, calls, transactions, command_task,
                   event_task, handler_calls, callback_errors, warnings, correlated,
                   registered, published, uuid_count, foreign_count>>

\* Lines 376-378.
shutdown_event(i, fails) ==
    /\ shutdown_pc[i] = "response"
    /\ IF fails
       THEN /\ shutdown_pc' = [shutdown_pc EXCEPT ![i] = "failed"]
            /\ UNCHANGED <<released, consumers>>
       ELSE /\ shutdown_pc' = [shutdown_pc EXCEPT ![i] = "done"]
            /\ released' = [released EXCEPT ![i] = Append(@, "event")]
            /\ consumers' = consumers \ {EventConsumer(i)}
    /\ UNCHANGED <<name, sent, codec_vars, resources,
                   command_routes, event_routes, command_transactions, connect_pc,
                   subscribed, bindings, queues, calls, transactions, command_task,
                   event_task, handler_calls, callback_errors, warnings, correlated,
                   registered, published, uuid_count, foreign_count>>

-----------------------------------------------------------------------------
(* Service.call *)

\* uuid.uuid4(): a value that was never drawn before.
uuid4Repeated(count) == 1

uuid4(count) == count + 1

\* CommandTransaction.__init__
CommandTransaction == [event |-> FALSE, response |-> PyNone]

\* The AMQP properties of the command; an absent property reads as None.
CallPropertiesAlways(i, message_id, expect_response) ==
    [reply_to |-> response_queue_name(i), correlation_id |-> message_id]

CallProperties(i, message_id, expect_response) ==
    IF expect_response
    THEN [reply_to |-> response_queue_name(i), correlation_id |-> message_id]
    ELSE [reply_to |-> NoReplyTo, correlation_id |-> NoId]

\* The table after the registration that precedes the publish; t is the new
\* CommandTransaction object.
CallRegisterNever(table, message_id, t, expect_response) == table

CallRegister(table, message_id, t, expect_response) ==
    IF expect_response THEN DictSet(table, message_id, t) ELSE table

\* The finally clause: del self.command_transactions[message_id].
CallFinallyClear(table, message_id) ==
    IF message_id \in DOMAIN table
    THEN [raised |-> "", table |-> <<>>]
    ELSE [raised |-> "KeyError", table |-> table]

CallFinallyKeep(table, message_id) ==
    [raised |-> "", table |-> table]

CallFinally(table, message_id) ==
    IF message_id \in DOMAIN table
    THEN [raised |-> "", table |-> DictDel(table, message_id)]
    ELSE [raised |-> "KeyError", table |-> table]

NoResult == <<"unfinished">>

\* The application, not a handler, issues the call.
NoOwner == <<>>

\* Lines 254-267, up to the point where basic_publish may suspend.  Before
\* connect has set command_channel the publish raises AttributeError, after
\* shutdown has closed it ChannelClosed.  owner is the callback whose handler
\* awaits the call.
call_start(owner, i, service_name, path, body, expect_response) ==
    LET t == Len(calls) + 1
        message_id == uuid4(uuid_count)
        command == Command(PyStr(path), PyNone, body, PyNone)
        properties == CallProperties(i, message_id, expect_response)
        has_channel == IsOpen(i, "command")
    IN /\ Len(calls) < MaxCalls
       /\ uuid_count' = uuid_count + 1
       /\ command_transactions' =
            [command_transactions EXCEPT
                ![i] = CallRegister(@, message_id, t, expect_response)]
       /\ transactions' =
            IF expect_response
            THEN DictSet(transactions, t, CommandTransaction)
            ELSE transactions
       /\ queues' =
            IF has_channel
            THEN basic_publish(queues, rpc_exchange_name, <<service_name>>,
                    Delivery(ModelStr(CommandFields, command),
                             properties.reply_to, properties.correlation_id))
            ELSE queues
       /\ calls' = Append(calls,
            [instance |-> i, service_name |-> service_name, path |-> path,
             expect_response |-> expect_response, message_id |-> message_id,
             pc |-> IF has_channel THEN "publish" ELSE "done",
             result |-> NoResult,
             raised |-> IF has_channel THEN ""
                        ELSE IF connect_pc[i] = "new" THEN "AttributeError"
                        ELSE "ChannelClosed",
             owner |-> owner])

\* Service.call as the application awaits it.
call_begin(i, service_name, path, body, expect_response) ==
    /\ call_start(NoOwner, i, service_name, path, body, expect_response)
    /\ UNCHANGED <<name, sent, codec_vars, shutdown_vars,
                   command_routes, event_routes, connect_pc, subscribed, bindings, consumers,
                   command_task, event_task, handler_calls, callback_errors, warnings,
                   correlated, registered, published, foreign_count>>

\* basic_publish has returned: lines 274-284; a call that expects no response
\* returns None here.
call_published(t) ==
    /\ t \in 1..Len(calls)
    /\ calls[t].pc = "publish"
    /\ calls' = [calls EXCEPT ![t] =
            IF calls[t].expect_response
            THEN [@ EXCEPT !.pc = "wait"]
            ELSE [@ EXCEPT !.pc = "done", !.result = PyNone]]
    /\ UNCHANGED <<name, sent, codec_vars, shutdown_vars,
                   command_routes, event_routes, command_transactions, connect_pc, subscribed,
                   bindings, consumers, queues, transactions, command_task,
                   event_task, handler_calls, callback_errors, warnings, correlated,
                   registered, published, uuid_count, foreign_count>>

\* wait_for returned because the event is set: lines 289-292.
call_return(t) ==
    /\ t \in 1..Len(calls)
    /\ calls[t].pc = "wait"
    /\ transactions[t].event
    /\ LET i == calls[t].instance
           f == CallFinally(command_transactions[i], calls[t].message_id)
       IN /\ command_transactions' = [command_transactions EXCEPT ![i] = f.table]
          /\ calls' = [calls EXCEPT ![t] =
                IF f.raised = ""
                THEN [@ EXCEPT !.pc = "done", !.result = transactions[t].response]
                ELSE [@ EXCEPT !.pc = "done", !.raised = f.raised]]
    /\ UNCHANGED <<name, sent, codec_vars, shutdown_vars,
                   command_routes, event_routes, connect_pc, subscribed, bindings, consumers,
                   queues, transactions, command_task, event_task, handler_calls,
                   callback_errors, warnings, correlated, registered, published, uuid_count,
                   foreign_count>>

\* Line 284: wait_for with the timeout of the call, a number of seconds (20.0
\* unless the caller gives another): its timer ends the wait while the event is
\* not set.
WaitForTimesOutNever(event) == FALSE

WaitForTimesOut(event) == ~event

\* wait_for raised asyncio.TimeoutError, the event not being set when the
\* timeout elapsed: lines 285-288 and 291-292.
call_timeout(t) ==
    /\ t \in 1..Len(calls)
    /\ calls[t].pc = "wait"
    /\ WaitForTimesOut(transactions[t].event)
    /\ LET i == calls[t].instance
           f == CallFinally(command_transactions[i], calls[t].message_id)
       IN /\ command_transactions' = [command_transactions EXCEPT ![i] = f.table]
          /\ calls' = [calls EXCEPT ![t] =
                [@ EXCEPT !.pc = "done",
                          !.raised = IF f.raised = "" THEN "TimeoutError" ELSE f.raised]]
    /\ UNCHANGED <<name, sent, codec_vars, shutdown_vars,
                   command_routes, event_routes, connect_pc, subscribed, bindings, consumers,
                   queues, transactions, command_task, event_task, handler_calls,
                   callback_errors, warnings, correlated, registered, published, uuid_count,
                   foreign_count>>

-----------------------------------------------------------------------------
(* The consumer callbacks.  The broker connection that delivers to a callback *)
(* awaits it before it reads its next frame, so each of the three connections *)
(* of an instance runs one callback at a time.                                *)

\* table[key] for a decoded path: unhashable keys raise TypeError, absent ones
\* KeyError.
LookupDefault(table, key) ==
    IF key[1] = "str" /\ key[2] \in DOMAIN table
    THEN [raised |-> "", func |-> table[key[2]]]
    ELSE IF table # <<>>
         THEN [raised |-> "", func |-> table[CHOOSE p \in DOMAIN table : TRUE]]
         ELSE [raised |-> "KeyError", func |-> ""]

Lookup(table, key) ==
    IF key[1] \in {"list", "dict"}
    THEN [raised |-> "TypeError", func |-> ""]
    ELSE IF key[1] = "str" /\ key[2] \in DOMAIN table
         THEN [raised |-> "", func |-> table[key[2]]]
         ELSE [raised |-> "KeyError", func |-> ""]

\* Handlers that await a call of their own before they return, as foo_bar of
\* examples/services.py does: self.call("A", "/first/cmd", {...}).
CallingHandlers == {"nested_evt", "nested_cmd"}

\* The task of the callback that waits for its handler.
TaskOf(i, callback) ==
    IF callback = "_on_command" THEN command_task[i] ELSE event_task[i]

\* The handler is at its await of self.call: the call is issued, the handler
\* stays suspended until the call has returned or raised.
handler_call(i, callback) ==
    LET task == TaskOf(i, callback)
        suspended == <<[task[1] EXCEPT !.nested = <<Len(calls) + 1>>]>>
    IN /\ task # Idle
       /\ task[1].func \in CallingHandlers
       /\ task[1].nested = <<>>
       /\ call_start(<<i, callback>>, i, "A", PathCmd, BodyIn, TRUE)
       /\ IF callback = "_on_command"
          THEN /\ command_task' = [command_task EXCEPT ![i] = suspended]
               /\ UNCHANGED event_task
          ELSE /\ event_task' = [event_task EXCEPT ![i] = suspended]
               /\ UNCHANGED command_task
       /\ UNCHANGED <<name, sent, codec_vars, shutdown_vars,
                      command_routes, event_routes, connect_pc, subscribed, bindings,
                      consumers, handler_calls, callback_errors, warnings, correlated,
                      registered, published, foreign_count>>

\* The handler can come to its end: it awaits no call, or its call is over.
HandlerEnds(task) ==
    \/ task.func \notin CallingHandlers
    \/ task.nested # <<>> /\ calls[task.nested[1]].pc = "done"

\* What leaves the handler instead of a return value: what its call raised.
HandlerRaised(task) ==
    IF task.func \in CallingHandlers THEN calls[task.nested[1]].raised ELSE ""

\* _on_command up to the handler call: lines 143-155.
on_command(i) ==
    /\ CanConsume(i, command_queue_name(i), "_on_command")
    /\ command_task[i] = Idle
    /\ LET d == Head(queues[command_queue_name(i)])
           command == loads(CommandFields, d.payload)
           looked == Lookup(command_routes[i], command.values.path)
       IN /\ queues' = [queues EXCEPT ![command_queue_name(i)] = Tail(@)]
          /\ IF command.raised
             THEN /\ callback_errors' =
                        callback_errors \cup {<<i, "_on_command", "ServiceError">>}
                  /\ UNCHANGED <<command_task, handler_calls, warnings>>
             ELSE IF looked.raised = "KeyError"
             THEN /\ warnings' = warnings \cup
                        {<<i, "_on_command", command.values.path>>}
                  /\ UNCHANGED <<command_task, handler_calls, callback_errors>>
             ELSE IF looked.raised # ""
             THEN /\ callback_errors' =
                        callback_errors \cup {<<i, "_on_command", looked.raised>>}
                  /\ UNCHANGED <<command_task, handler_calls, warnings>>
             ELSE /\ handler_calls' = CountUp(handler_calls,
                        <<i, looked.func, command.values.path, command.values.query,
                          command.values.headers, command.values.body>>)
                  /\ command_task' = [command_task EXCEPT ![i] =
                        <<[command |-> command.values, func |-> looked.func,
                           reply_to |-> d.reply_to,
                           correlation_id |-> d.correlation_id,
                           nested |-> <<>>]>>]
                  /\ UNCHANGED <<callback_errors, warnings>>
    /\ UNCHANGED <<name, sent, codec_vars, shutdown_vars,
                   command_routes, event_routes, command_transactions, connect_pc, subscribed,
                   bindings, consumers, calls, transactions, event_task, correlated,
                   registered, published, uuid_count, foreign_count>>

\* Lines 161-169: the Response made of what the handler returned.
NormalizeResponseNoStatus(command_path, response) ==
    IF response[1] = "Response"
    THEN [raised |-> "", values |-> response[2]]
    ELSE IF response[1] = "tuple"
         THEN IF Len(response[2]) = 2
              THEN [raised |-> "",
                    values |-> Response(command_path, response[2][1],
                                        response[2][2], PyNone)]
              ELSE [raised |-> "ValueError", values |-> <<>>]
         ELSE [raised |-> "",
               values |-> Response(command_path, response, PyNone, PyNone)]

NormalizeResponse(command_path, response) ==
    IF response[1] = "Response"
    THEN [raised |-> "", values |-> response[2]]
    ELSE IF response[1] = "tuple"
         THEN IF Len(response[2]) = 3
              THEN [raised |-> "",
                    values |-> Response(command_path, response[2][1],
                                        response[2][2], response[2][3])]
              ELSE [raised |-> "ValueError", values |-> <<>>]
         ELSE [raised |-> "",
               values |-> Response(command_path, response, PyInt(StatusOk), PyNone)]

\* Line 156: a Response is due when the delivery names a reply_to.
ReplyRequiredAlways(reply_to) == TRUE

ReplyRequired(reply_to) == reply_to # NoReplyTo

\* Lines 172-178: the basic_publish of the Response.
ResponsePublishNoCorrelation(reply_to, correlation_id, response) ==
    [exchange_name |-> rpc_exchange_name, routing_key |-> reply_to,
     payload |-> ModelStr(ResponseFields, response), correlation_id |-> NoId]

ResponsePublish(reply_to, correlation_id, response) ==
    [exchange_name |-> rpc_exchange_name, routing_key |-> reply_to,
     payload |-> ModelStr(ResponseFields, response), correlation_id |-> correlation_id]

\* The handler has returned: lines 155-180.
command_handler_done(i) ==
    /\ command_task[i] # Idle
    /\ HandlerEnds(command_task[i][1])
    /\ LET task == command_task[i][1]
           command == task.command
           returned == HandlerReturn(task.func, command.path, command.query,
                                     command.headers, command.body)
           response == NormalizeResponse(command.path, returned)
           m == ResponsePublish(task.reply_to, task.correlation_id, response.values)
       IN /\ command_task' = [command_task EXCEPT ![i] = Idle]
          /\ IF HandlerRaised(task) # ""
             THEN /\ callback_errors' =
                        callback_errors \cup {<<i, "_on_command", HandlerRaised(task)>>}
                  /\ UNCHANGED <<queues, sent, warnings>>
             ELSE IF ~ReplyRequired(task.reply_to)
             THEN UNCHANGED <<queues, sent, callback_errors, warnings>>
             ELSE IF response.raised # ""
             THEN /\ callback_errors' =
                        callback_errors \cup {<<i, "_on_command", response.raised>>}
                  /\ UNCHANGED <<queues, sent, warnings>>
             ELSE /\ queues' = basic_publish(queues, m.exchange_name, m.routing_key,
                        Delivery(m.payload, NoReplyTo, m.correlation_id))
                  /\ sent' = Append(sent, <<i, m>>)
                  /\ UNCHANGED <<callback_errors, warnings>>
    /\ UNCHANGED <<name, codec_vars, shutdown_vars,
                   command_routes, event_routes, command_transactions, connect_pc, subscribed,
                   bindings, consumers, calls, transactions, event_task,
                   handler_calls, correlated, registered, published, uuid_count,
                   foreign_count>>

\* Lines 200-205: the transaction objects a response with this correlation id
\* is for; none when no call waits for it.
ResponseTransactionsAll(table, correlation_id) ==
    {table[c] : c \in DOMAIN table}

ResponseTransactions(table, correlation_id) ==
    IF correlation_id \in DOMAIN table THEN {table[correlation_id]} ELSE {}

\* _on_response: lines 198-212.
on_response(i) ==
    /\ CanConsume(i, response_queue_name(i), "_on_response")
    /\ LET d == Head(queues[response_queue_name(i)])
           found == ResponseTransactions(command_transactions[i], d.correlation_id)
           response == loads(ResponseFields, d.payload)
       IN /\ queues' = [queues EXCEPT ![response_queue_name(i)] = Tail(@)]
          /\ IF found = {}
             THEN /\ warnings' = warnings \cup
                        {<<i, "_on_response", d.correlation_id>>}
                  /\ UNCHANGED <<transactions, callback_errors, correlated>>
             ELSE IF response.raised
             THEN /\ callback_errors' =
                        callback_errors \cup {<<i, "_on_response", "ServiceError">>}
                  /\ UNCHANGED <<transactions, warnings, correlated>>
             ELSE /\ transactions' =
                        [t \in DOMAIN transactions |->
                            IF t \in found
                            THEN [event |-> TRUE,
                                  response |-> PyResponse(response.values)]
                            ELSE transactions[t]]
                  /\ correlated' = correlated \cup
                        {<<i, d.correlation_id, response.values>>}
                  /\ UNCHANGED <<callback_errors, warnings>>
    /\ UNCHANGED <<name, sent, codec_vars, shutdown_vars,
                   command_routes, event_routes, command_transactions, connect_pc, subscribed,
                   bindings, consumers, calls, command_task, event_task,
                   handler_calls, registered, published, uuid_count, foreign_count>>

\* _on_event up to the handler call: lines 225-238.
on_event(i) ==
    /\ CanConsume(i, event_queue_name(i), "_on_event")
    /\ event_task[i] = Idle
    /\ LET d == Head(queues[event_queue_name(i)])
           event == loads(EventFields, d.payload)
           looked == Lookup(event_routes[i], event.values.path)
       IN /\ queues' = [queues EXCEPT ![event_queue_name(i)] = Tail(@)]
          /\ IF event.raised
             THEN /\ callback_errors' =
                        callback_errors \cup {<<i, "_on_event", "ServiceError">>}
                  /\ UNCHANGED <<event_task, handler_calls, warnings>>
             ELSE IF looked.raised = "KeyError"
             THEN /\ warnings' = warnings \cup {<<i, "_on_event", event.values.path>>}
                  /\ UNCHANGED <<event_task, handler_calls, callback_errors>>
             ELSE IF looked.raised # ""
             THEN /\ callback_errors' =
                        callback_errors \cup {<<i, "_on_event", looked.raised>>}
                  /\ UNCHANGED <<event_task, handler_calls, warnings>>
             ELSE /\ handler_calls' = CountUp(handler_calls,
                        <<i, looked.func, event.values.path, event.values.headers,
                          event.values.body>>)
                  /\ event_task' = [event_task EXCEPT ![i] =
                        <<[func |-> looked.func, nested |-> <<>>]>>]
                  /\ UNCHANGED <<callback_errors, warnings>>
    /\ UNCHANGED <<name, sent, codec_vars, shutdown_vars,
                   command_routes, event_routes, command_transactions, connect_pc, subscribed,
                   bindings, consumers, calls, transactions, command_task,
                   correlated, registered, published, uuid_count, foreign_count>>

\* The event handler has returned: the end of line 238.
event_handler_done(i) ==
    /\ event_task[i] # Idle
    /\ HandlerEnds(event_task[i][1])
    /\ event_task' = [event_task EXCEPT ![i] = Idle]
    /\ callback_errors' =
            IF HandlerRaised(event_task[i][1]) # ""
            THEN callback_errors \cup {<<i, "_on_event", HandlerRaised(event_task[i][1])>>}
            ELSE callback_errors
    /\ UNCHANGED <<name, sent, codec_vars, shutdown_vars,
                   command_routes, event_routes, command_transactions, connect_pc, subscribed,
                   bindings, consumers, queues, calls, transactions, command_task,
                   handler_calls, warnings, correlated, registered, published,
                   uuid_count, foreign_count>>

\* The instances whose connect has returned after it went through this path.
Subscribers(path) ==
    {j \in Instances : connect_pc[j] = "connected" /\ path \in subscribed[j]}

\* Service.publish: lines 316-322; it needs the event channel of connect.
publish(i, path, body) ==
    /\ Len(published) < MaxPublish
    /\ connect_pc[i] = "connected"
    /\ IsOpen(i, "event")
    /\ queues' = basic_publish(queues, event_exchange_name, path_to_routing_key(path),
            Delivery(ModelStr(EventFields, Event(PyStr(path), body, PyNone)),
                     NoReplyTo, NoId))
    /\ published' = Append(published, <<i, path, body, Subscribers(path)>>)
    /\ UNCHANGED <<name, sent, codec_vars, shutdown_vars,
                   command_routes, event_routes, command_transactions, connect_pc, subscribed,
                   bindings, consumers, calls, transactions, command_task, event_task,
                   handler_calls, callback_errors, warnings, correlated, registered,
                   uuid_count, foreign_count>>

-----------------------------------------------------------------------------
(* The message models and the helper on their own: a model is built and      *)
(* written out with str(), a payload is read with loads(), a path is turned  *)
(* into a routing key.                                                        *)

Kinds == {"Command", "Response", "Event"}

\* FIELDS of the class.
Fields(kind) ==
    CASE kind = "Command" -> CommandFields
      [] kind = "Response" -> ResponseFields
      [] kind = "Event" -> EventFields

\* ProtocolModel.__str__ of the model at hand.
str_message ==
    /\ message # NoRun
    /\ wire = NoRun
    /\ wire' = [kind |-> message.kind,
                text |-> ModelStr(Fields(message.kind), message.values)]
    /\ UNCHANGED <<service_vars, message, loaded, path_in, key_out>>

\* cls.loads of the payload at hand.
loads_payload ==
    /\ wire # NoRun
    /\ loaded = NoRun
    /\ loaded' = loads(Fields(wire.kind), wire.text)
    /\ UNCHANGED <<service_vars, message, wire, path_in, key_out>>

\* path_to_routing_key of the path at hand.
translate_path ==
    /\ path_in # NoRun
    /\ key_out = NoRun
    /\ key_out' = <<path_to_routing_key(path_in[1])>>
    /\ UNCHANGED <<service_vars, message, wire, loaded, path_in>>

-----------------------------------------------------------------------------
(* Other parties on the broker: a delivery to the RPC exchange that no call *)
(* of a service asked for.  Its correlation id is none a service drew.      *)

ForeignPayloads ==
    {ModelStr(ResponseFields,
              Response(PyStr(PathCmd), BodyEvt, PyInt(StatusOk), PyNone)),
     ModelStr(EventFields, Event(PyStr(PathCmd), BodyEvt, PyNone))}

ForeignCorrelationIds == {-1}

\* They reach the command queue of the called service and the response queue
\* of the calling one.
RpcRoutingKeys == {command_queue_name("a1"), response_queue_name("b1")}

foreign_publish(routing_key, payload, correlation_id) ==
    /\ foreign_count < MaxForeign
    /\ foreign_count' = foreign_count + 1
    /\ queues' = basic_publish(queues, rpc_exchange_name, routing_key,
            Delivery(payload, NoReplyTo, correlation_id))
    /\ UNCHANGED <<name, sent, codec_vars, shutdown_vars,
                   command_routes, event_routes, command_transactions, connect_pc, subscribed,
                   bindings, consumers, calls, transactions, command_task, event_task,
                   handler_calls, callback_errors, warnings, correlated, registered, published,
                   uuid_count>>

\* A second answer to a call: a party that has seen the command of call t
\* publishes a payload of its own to the command's reply_to, under the
\* command's correlation id.
SecondPayloads ==
    {ModelStr(ResponseFields,
              Response(PyStr(PathCmd), BodyEvt, PyInt(StatusOk), PyNone)),
     DropField(ModelStr(ResponseFields,
                        Response(PyStr(PathCmd), BodyEvt, PyInt(StatusOk), PyNone)),
               "status_code")}

second_response(t, text) ==
    /\ foreign_count < MaxForeign
    /\ t \in 1..Len(calls)
    /\ calls[t].expect_response
    /\ foreign_count' = foreign_count + 1
    /\ queues' = basic_publish(queues, rpc_exchange_name,
            response_queue_name(calls[t].instance),
            Delivery(text, NoReplyTo, calls[t].message_id))
    /\ UNCHANGED <<name, sent, codec_vars, shutdown_vars,
                   command_routes, event_routes, command_transactions, connect_pc,
                   subscribed, bindings, consumers, calls, transactions, command_task,
                   event_task, handler_calls, callback_errors, warnings, correlated,
                   registered, published, uuid_count>>

-----------------------------------------------------------------------------
(* Initial states. *)

NoRegistration == <<0, "", "", <<>>, "", "">>

\* Service("A") and Service("B") of examples/services.py.
ExampleNames == [i \in Instances |-> IF i = "a1" THEN "A" ELSE "B"]

\* No codec or helper run: the services are all there is.
NoRuns ==
    /\ message = NoRun
    /\ wire = NoRun
    /\ loaded = NoRun
    /\ path_in = NoRun
    /\ key_out = NoRun

\* The services as Service.__init__ leaves them, on a broker without queues.
Constructed(names) ==
    /\ name = names
    /\ command_routes = [i \in Instances |-> <<>>]
    /\ event_routes = [i \in Instances |-> <<>>]
    /\ command_transactions = [i \in Instances |-> <<>>]
    /\ connect_pc = [i \in Instances |-> "new"]
    /\ subscribed = [i \in Instances |-> {}]
    /\ bindings = {}
    /\ consumers = {}
    /\ queues = [q \in QueueNames |-> <<>>]
    /\ calls = <<>>
    /\ transactions = <<>>
    /\ command_task = [i \in Instances |-> Idle]
    /\ event_task = [i \in Instances |-> Idle]
    /\ handler_calls = <<>>
    /\ callback_errors = {}
    /\ warnings = {}
    /\ correlated = {}
    /\ registered = NoRegistration
    /\ published = <<>>
    /\ uuid_count = 0
    /\ foreign_count = 0
    /\ resources = [i \in Instances |-> <<>>]
    /\ released = [i \in Instances |-> <<>>]
    /\ shutdown_pc = [i \in Instances |-> "idle"]
    /\ sent = <<>>

Init == Constructed(ExampleNames) /\ NoRuns

\* The command routes of the RPC scenarios (examples/services.py): service A
\* answers PathCmd with first_cmd and has no route for PathEvt; service B has
\* no command route.
RpcRoutes(i) ==
    IF i = "a1" THEN Register(<<>>, PathCmd, "first_cmd").table ELSE <<>>

\* The services after their routes were registered and connect has returned.
Connected(names, cmd_routes, evt_routes) ==
    /\ name = names
    /\ command_routes = cmd_routes
    /\ event_routes = evt_routes
    /\ command_transactions = [i \in Instances |-> <<>>]
    /\ connect_pc = [i \in Instances |-> "connected"]
    /\ subscribed = [i \in Instances |-> DOMAIN evt_routes[i]]
    /\ bindings = UNION {CommandBindings(i) \cup ResponseBindings(i)
                            \cup EventBindings(i, evt_routes[i]) : i \in Instances}
    /\ consumers = UNION {{CommandConsumer(i), ResponseConsumer(i), EventConsumer(i)} :
                            i \in Instances}
    /\ queues = [q \in QueueNames |-> <<>>]
    /\ calls = <<>>
    /\ transactions = <<>>
    /\ command_task = [i \in Instances |-> Idle]
    /\ event_task = [i \in Instances |-> Idle]
    /\ handler_calls = <<>>
    /\ callback_errors = {}
    /\ warnings = {}
    /\ correlated = {}
    /\ registered = NoRegistration
    /\ published = <<>>
    /\ uuid_count = 0
    /\ foreign_count = 0
    /\ resources = [i \in Instances |-> <<"command", "response", "event">>]
    /\ released = [i \in Instances |-> <<>>]
    /\ shutdown_pc = [i \in Instances |-> "idle"]
    /\ sent = <<>>

NoRoutes == [i \in Instances |-> <<>>]

InitRpc ==
    Connected(ExampleNames, [i \in Instances |-> RpcRoutes(i)], NoRoutes) /\ NoRuns

\* Handlers that call: service A answers PathCmd with first_cmd; service B
\* answers the command PathEvt with a handler that calls A first, and handles
\* the event PathEvt with one that does (b.subscribe("/foo/bar") of
\* examples/services.py).
NestedCommandRoutes(i) ==
    IF i = "a1"
    THEN Register(<<>>, PathCmd, "first_cmd").table
    ELSE Register(<<>>, PathEvt, "nested_cmd").table

NestedEventRoutes(i) ==
    IF i = "a1" THEN <<>> ELSE Register(<<>>, PathEvt, "nested_evt").table

InitNested ==
    /\ Connected(ExampleNames, [i \in Instances |-> NestedCommandRoutes(i)],
                 [i \in Instances |-> NestedEventRoutes(i)])
    /\ NoRuns

\* Two instances of one service: both were made with Service("B") and both
\* registered the same routes.
SameNames == [i \in Instances |-> "B"]

SameRoutes(i) == Register(<<>>, PathCmd, "first_cmd").table

InitSame ==
    Connected(SameNames, [i \in Instances |-> SameRoutes(i)], NoRoutes) /\ NoRuns

\* The values a field of a message is given: those of the wire format (null,
\* strings, numbers, lists, mappings) and Python tuples, alone and nested.
FieldValues ==
    {PyNone, PyStr(<<"w">>), PyInt(7), PyDict(<<>>), BodyIn,
     PyList(<<PyInt(1), PyNone>>),
     PyDict(<< <<"k", PyList(<<PyStr(<<"v">>)>>)>> >>),
     PyTuple(<<PyInt(1), PyNone>>),
     PyDict(<< <<"k", PyTuple(<<PyStr(<<"v">>)>>)>> >>)}

\* query and headers: a mapping or None.
OptionalMappings == {PyNone, BodyIn}

StatusCodes == {PyInt(StatusOk), PyInt(404)}

\* The models Command(...), Response(...) and Event(...) build.
Messages ==
    {[kind |-> "Command", values |-> Command(PyStr(PathCmd), q, b, h)] :
        q \in OptionalMappings, b \in FieldValues, h \in OptionalMappings}
    \cup {[kind |-> "Response", values |-> Response(PyStr(PathCmd), b, c, h)] :
        b \in FieldValues, c \in StatusCodes, h \in OptionalMappings}
    \cup {[kind |-> "Event", values |-> Event(PyStr(PathEvt), b, h)] :
        b \in FieldValues, h \in OptionalMappings}

\* Payloads that arrive from elsewhere: the payload of a model without one of
\* its members, or with a member the model does not know.
InboundPayloads ==
    UNION {
        {[kind |-> m.kind,
          text |-> DropField(ModelStr(Fields(m.kind), m.values), Fields(m.kind)[k])] :
            k \in 1..Len(Fields(m.kind))}
        \cup {[kind |-> m.kind,
               text |-> ExtraField(ModelStr(Fields(m.kind), m.values), "extra")]} :
        m \in {x \in Messages : x.values.body \in {BodyIn, PyNone}}}

\* A model to write out and read back, or a payload to read.
InitCodec ==
    /\ Constructed(ExampleNames)
    /\ loaded = NoRun
    /\ path_in = NoRun
    /\ key_out = NoRun
    /\ \/ message \in Messages /\ wire = NoRun
       \/ message = NoRun /\ wire \in InboundPayloads

PathChars == {"/", "a", "b", "c"}

\* The strings of up to MaxPathLen characters.
PathArgs == UNION {[1..n -> PathChars] : n \in 0..MaxPathLen}

\* A path to translate.
InitHelpers ==
    /\ Constructed(ExampleNames)
    /\ message = NoRun
    /\ wire = NoRun
    /\ loaded = NoRun
    /\ path_in \in {<<p>> : p \in PathArgs}
    /\ key_out = NoRun

-----------------------------------------------------------------------------
(* Next-state relations and specifications. *)

\* The instance whose application code issues the calls (service B of
\* examples/services.py).
Callers == {"b1"}

\* The service the calls are sent to.
CallTargets == {"A"}

NextRpc ==
    \/ \E i \in Callers, n \in CallTargets, p \in Paths, e \in BOOLEAN :
            call_begin(i, n, p, BodyIn, e)
    \/ \E t \in 1..MaxCalls : call_published(t)
    \/ \E t \in 1..MaxCalls : call_return(t)
    \/ \E t \in 1..MaxCalls : call_timeout(t)
    \/ \E i \in Instances : on_command(i)
    \/ \E i \in Instances : command_handler_done(i)
    \/ \E i \in Instances : on_response(i)
    \/ \E k \in RpcRoutingKeys, p \in ForeignPayloads, c \in ForeignCorrelationIds :
            foreign_publish(k, p, c)

NextSetup ==
    \/ \E i \in Instances, p \in Paths, f \in CommandHandlers : route(i, p, f)
    \/ \E i \in Instances, p \in Paths, f \in EventHandlers : subscribe(i, p, f)
    \/ \E i \in Instances : connect_command(i)
    \/ \E i \in Instances : connect_response(i)
    \/ \E i \in Instances : connect_event(i)

NextEvents ==
    \/ \E i \in Instances, p \in Paths : publish(i, p, BodyEvt)
    \/ \E i \in Instances : on_event(i)
    \/ \E i \in Instances : event_handler_done(i)

NextShutdown ==
    \/ \E i \in Instances, fails \in BOOLEAN : shutdown_command(i, fails)
    \/ \E i \in Instances, fails \in BOOLEAN : shutdown_response(i, fails)
    \/ \E i \in Instances, fails \in BOOLEAN : shutdown_event(i, fails)

Next == NextSetup \/ NextRpc \/ NextEvents \/ NextShutdown

\* The whole life of the services, from construction on.
Spec == Init /\ [][Next]_vars

\* Calls between two connected services.
SpecRpc == InitRpc /\ [][NextRpc]_vars

\* Registration, connect and events, from construction on.
SpecEvents == Init /\ [][NextSetup \/ NextEvents]_vars

\* Registration, connect and shutdown, from construction on.
SpecShutdown == Init /\ [][NextSetup \/ NextShutdown]_vars

NextNested ==
    \/ publish("a1", PathEvt, BodyEvt)
    \/ \E e \in BOOLEAN : call_begin("a1", "B", PathEvt, BodyIn, e)
    \/ \E i \in Instances, c \in {"_on_command", "_on_event"} : handler_call(i, c)
    \/ \E t \in 1..MaxCalls : call_published(t)
    \/ \E t \in 1..MaxCalls : call_return(t)
    \/ \E t \in 1..MaxCalls : call_timeout(t)
    \/ \E i \in Instances : on_command(i)
    \/ \E i \in Instances : command_handler_done(i)
    \/ \E i \in Instances : on_response(i)
    \/ \E i \in Instances : on_event(i)
    \/ \E i \in Instances : event_handler_done(i)

\* An event and a command whose handlers call another service.
SpecNested == InitNested /\ [][NextNested]_vars

NextClosing ==
    \/ \E i \in Callers, e \in BOOLEAN : call_begin(i, "A", PathCmd, BodyIn, e)
    \/ \E t \in 1..MaxCalls : call_published(t)
    \/ \E t \in 1..MaxCalls : call_return(t)
    \/ \E t \in 1..MaxCalls : call_timeout(t)
    \/ \E i \in Instances : on_command(i)
    \/ \E i \in Instances : command_handler_done(i)
    \/ \E i \in Instances : on_response(i)
    \/ \E i \in Callers, fails \in BOOLEAN : shutdown_command(i, fails)
    \/ \E i \in Callers, fails \in BOOLEAN : shutdown_response(i, fails)
    \/ \E i \in Callers, fails \in BOOLEAN : shutdown_event(i, fails)

\* Calls of a service that is shut down meanwhile.
SpecClosing == InitRpc /\ [][NextClosing]_vars

NextAnswers ==
    \/ \E i \in Callers : call_begin(i, "A", PathCmd, BodyIn, TRUE)
    \/ \E t \in 1..MaxCalls : call_published(t)
    \/ \E t \in 1..MaxCalls : call_return(t)
    \/ \E t \in 1..MaxCalls : call_timeout(t)
    \/ \E i \in Instances : on_command(i)
    \/ \E i \in Instances : command_handler_done(i)
    \/ \E i \in Instances : on_response(i)
    \/ \E t \in 1..MaxCalls, p \in SecondPayloads : second_response(t, p)

\* Calls that get more than one answer.
SpecAnswers == InitRpc /\ [][NextAnswers]_vars

\* Service A answers PathCmd with one of the handlers, which differ in what
\* they return.
HandlerRoutes(func) ==
    [i \in Instances |->
        IF i = "a1" THEN Register(<<>>, PathCmd, func).table ELSE <<>>]

InitHandlers ==
    /\ \E func \in CommandHandlers :
            Connected(ExampleNames, HandlerRoutes(func), NoRoutes)
    /\ NoRuns

NextHandlers ==
    \/ \E i \in Callers, e \in BOOLEAN : call_begin(i, "A", PathCmd, BodyIn, e)
    \/ \E t \in 1..MaxCalls : call_published(t)
    \/ \E t \in 1..MaxCalls : call_return(t)
    \/ \E t \in 1..MaxCalls : call_timeout(t)
    \/ \E i \in Instances : on_command(i)
    \/ \E i \in Instances : command_handler_done(i)
    \/ \E i \in Instances : on_response(i)

\* Calls of a command whose handler returns a value of one of the shapes.
SpecHandlers == InitHandlers /\ [][NextHandlers]_vars

\* The path of the foo_bar event written without its leading slash: another
\* key of the route table, the same routing key.
PathAlias == <<"f", "/", "b">>

\* The event routes a service has registered before its connect.
DispatchTables ==
    {<<>>,
     Register(<<>>, PathEvt, "foo_bar").table,
     Register(Register(<<>>, PathEvt, "foo_bar").table, PathCmd, "other_evt").table,
     Register(<<>>, PathAlias, "other_evt").table}

InitDispatch ==
    /\ \E evt_routes \in [Instances -> DispatchTables] :
            Connected(ExampleNames, NoRoutes, evt_routes)
    /\ NoRuns

NextDispatch ==
    \/ \E i \in Instances, p \in Paths \cup {PathAlias} : publish(i, p, BodyEvt)
    \/ \E i \in Instances : on_event(i)
    \/ \E i \in Instances : event_handler_done(i)

\* Events published to services with several tables of event routes.
SpecDispatch == InitDispatch /\ [][NextDispatch]_vars

NextTimers ==
    \/ \E i \in Callers, p \in Paths : call_begin(i, "A", p, BodyIn, TRUE)
    \/ \E t \in 1..MaxCalls : call_published(t)
    \/ \E t \in 1..MaxCalls : call_return(t)
    \/ \E t \in 1..MaxCalls : call_timeout(t)
    \/ \E i \in Instances : on_command(i)
    \/ \E i \in Instances : command_handler_done(i)
    \/ \E i \in Instances : on_response(i)

\* The event loop resumes a call whose basic_publish has completed, and a
\* call whose event is set or whose timer has fired; nothing is assumed of the
\* service called.
FairTimers ==
    \A t \in 1..MaxCalls :
        /\ WF_vars(call_published(t))
        /\ WF_vars(call_return(t))
        /\ WF_vars(call_timeout(t))

\* Calls that expect a response, of a command with a handler and of one
\* without, under a fair event loop of the caller.
SpecTimers == InitRpc /\ [][NextTimers]_vars /\ FairTimers

NextSame ==
    \/ \E i \in Instances : call_begin(i, "B", PathCmd, BodyIn, TRUE)
    \/ \E t \in 1..MaxCalls : call_published(t)
    \/ \E t \in 1..MaxCalls : call_return(t)
    \/ \E t \in 1..MaxCalls : call_timeout(t)
    \/ \E i \in Instances : on_command(i)
    \/ \E i \in Instances : command_handler_done(i)
    \/ \E i \in Instances : on_response(i)

\* Calls among the instances of one service.
SpecSame == InitSame /\ [][NextSame]_vars

NextCodec == str_message \/ loads_payload

\* Message models written out and payloads read.
SpecCodec == InitCodec /\ [][NextCodec]_vars

NextHelpers == translate_path

\* Paths turned into routing keys.
SpecHelpers == InitHelpers /\ [][NextHelpers]_vars

-----------------------------------------------------------------------------
(* Properties. *)

\* Instance i's response callback takes the delivery at the head of its queue.
ResponseDelivered(i) ==
    /\ queues[response_queue_name(i)] # <<>>
    /\ queues'[response_queue_name(i)] = Tail(queues[response_queue_name(i)])

\* The call is between its registration and its end.
InFlight(t) == calls[t].expect_response /\ calls[t].pc # "done"

\* The instances that consume the commands sent to a service name.
Targets(service_name) == {j \in Instances : ServiceName(j) = service_name}

\* C1: a response delivery whose correlation id is in the table of
\* transactions (and whose payload decodes) resolves exactly the transaction
\* registered under that id: it gets the decoded Response and its event is set,
\* every other transaction and the table stay as they are; and a call only ever
\* returns a Response that was delivered with the call's own correlation id.
C1_ResponseResolvesItsCall ==
    [][ /\ \A i \in Instances :
            LET d == Head(queues[response_queue_name(i)])
                table == command_transactions[i]
                response == loads(ResponseFields, d.payload)
            IN (/\ ResponseDelivered(i)
                /\ d.correlation_id \in DOMAIN table
                /\ ~response.raised)
               => /\ transactions'[table[d.correlation_id]] =
                        [event |-> TRUE, response |-> PyResponse(response.values)]
                  /\ \A t \in DOMAIN transactions \ {table[d.correlation_id]} :
                        transactions'[t] = transactions[t]
                  /\ command_transactions' = command_transactions
        /\ \A t \in 1..Len(calls') :
            (calls'[t].expect_response /\ calls'[t].result # NoResult)
            => <<calls'[t].instance, calls'[t].message_id, calls'[t].result[2]>>
                    \in correlated'
      ]_vars

\* Two calls of one instance wait, one resolved by its response, one not.
C1_Witness ==
    \E t, u \in 1..Len(calls) :
        /\ t # u
        /\ calls[t].instance = calls[u].instance
        /\ calls[t].pc = "wait" /\ calls[u].pc = "wait"
        /\ transactions[t].event
        /\ ~transactions[u].event

\* C2: a call that expected a response and ended without _on_response having
\* stored one for its correlation id ended by raising TimeoutError, returned
\* nothing, and its id is not in the table of transactions.
C2_TimeoutRaisesAndCleansUp ==
    \A t \in 1..Len(calls) :
        (/\ calls[t].expect_response
         /\ calls[t].pc = "done"
         /\ calls[t].raised # "AttributeError"
         /\ ~\E r \in correlated :
                r[1] = calls[t].instance /\ r[2] = calls[t].message_id)
        => /\ calls[t].raised = "TimeoutError"
           /\ calls[t].result = NoResult
           /\ calls[t].message_id \notin DOMAIN command_transactions[calls[t].instance]

\* A call has timed out.
C2_Witness ==
    \E t \in 1..Len(calls) :
        /\ calls[t].pc = "done"
        /\ calls[t].raised = "TimeoutError"
        /\ calls[t].message_id \notin DOMAIN command_transactions[calls[t].instance]

\* C3: a response delivery whose correlation id is not in the table of
\* transactions changes no transaction, no call and not the table, and raises
\* nothing out of the callback, whatever its payload.
C3_UnsolicitedResponseDiscarded ==
    [][ \A i \in Instances :
            LET d == Head(queues[response_queue_name(i)])
            IN (/\ ResponseDelivered(i)
                /\ d.correlation_id \notin DOMAIN command_transactions[i])
               => /\ transactions' = transactions
                  /\ command_transactions' = command_transactions
                  /\ calls' = calls
                  /\ callback_errors' = callback_errors
      ]_vars

\* The response of a call that had timed out was discarded, and so was a
\* delivery with a correlation id no call ever had, while another call waited.
C3_Witness ==
    /\ \E t \in 1..Len(calls) :
            /\ calls[t].raised = "TimeoutError"
            /\ <<calls[t].instance, "_on_response", calls[t].message_id>> \in warnings
    /\ \E i \in Instances, c \in ForeignCorrelationIds :
            <<i, "_on_response", c>> \in warnings
    /\ \E t \in 1..Len(calls) : calls[t].pc = "wait"

\* C4: a call that expects no response leaves the table of transactions as it
\* is, publishes its command with neither reply_to nor correlation_id, and
\* returns None as soon as the publish is over, without ever waiting.
C4_NoResponseExpected ==
    [][ \A t \in 1..Len(calls') :
            LET c == calls'[t]
                q == <<c.service_name>>
            IN ~c.expect_response
               => /\ c.pc # "wait"
                  /\ t \notin DOMAIN transactions'
                  /\ t > Len(calls)
                     => /\ command_transactions' = command_transactions
                        /\ queues'[q] = Append(queues[q],
                                Delivery(ModelStr(CommandFields,
                                            Command(PyStr(c.path), PyNone, BodyIn, PyNone)),
                                         NoReplyTo, NoId))
                  /\ (t <= Len(calls) /\ calls[t] # c)
                     => /\ calls[t].pc = "publish"
                        /\ c.pc = "done"
                        /\ c.result = PyNone
                        /\ c.raised = ""
                        /\ command_transactions' = command_transactions
      ]_vars

\* A call that expected no response has returned.
C4_Witness ==
    \E t \in 1..Len(calls) :
        /\ ~calls[t].expect_response
        /\ calls[t].pc = "done"
        /\ calls[t].result = PyNone

\* C5: from the moment the command of a call that expects a response is
\* handed to the broker until the call ends, the table of transactions holds the
\* call's transaction under the call's correlation id.
C5_RegisteredBeforePublish ==
    \A t \in 1..Len(calls) :
        InFlight(t)
        => /\ calls[t].message_id \in DOMAIN command_transactions[calls[t].instance]
           /\ command_transactions[calls[t].instance][calls[t].message_id] = t

\* The response of a call is in the response queue while the call has not yet
\* come back from its publish.
C5_Witness ==
    \E t \in 1..Len(calls) :
        /\ calls[t].pc = "publish"
        /\ calls[t].expect_response
        /\ \E k \in 1..Len(queues[response_queue_name(calls[t].instance)]) :
                queues[response_queue_name(calls[t].instance)][k].correlation_id
                    = calls[t].message_id

\* C6: no two calls in flight have the same correlation id, and the entry of
\* each call in flight is the transaction that call registered.
C6_UniqueCorrelationIds ==
    /\ \A t, u \in 1..Len(calls) :
            (InFlight(t) /\ InFlight(u) /\ t # u)
            => calls[t].message_id # calls[u].message_id
    /\ \A t \in 1..Len(calls) :
            (InFlight(t)
             /\ calls[t].message_id \in DOMAIN command_transactions[calls[t].instance])
            => command_transactions[calls[t].instance][calls[t].message_id] = t

\* Two calls of one instance are in flight, each with its entry.
C6_Witness ==
    \E t, u \in 1..Len(calls) :
        /\ t # u
        /\ InFlight(t) /\ InFlight(u)
        /\ calls[t].instance = calls[u].instance
        /\ {calls[t].message_id, calls[u].message_id}
                \subseteq DOMAIN command_transactions[calls[t].instance]

\* C7: route and subscribe bind the handler when the path has none in their
\* table, and raise ServiceError, leaving the table as it is, when it has one.
C7_DuplicateRouteRejected ==
    [][ registered'[1] = registered[1] + 1
        => LET i == registered'[2]
               path == registered'[4]
               func == registered'[5]
               before == IF registered'[3] = "route"
                         THEN command_routes[i] ELSE event_routes[i]
               after == IF registered'[3] = "route"
                        THEN command_routes'[i] ELSE event_routes'[i]
           IN IF path \in DOMAIN before
              THEN registered'[6] = "ServiceError" /\ after = before
              ELSE /\ registered'[6] = ""
                   /\ DOMAIN after = DOMAIN before \cup {path}
                   /\ after[path] = func
                   /\ \A p \in DOMAIN before : after[p] = before[p]
      ]_vars

\* A second registration of a path was rejected, for a different handler.
C7_Witness ==
    /\ registered[6] = "ServiceError"
    /\ \/ registered[3] = "route"
          /\ command_routes[registered[2]][registered[4]] # registered[5]
       \/ registered[3] = "subscribe"
          /\ event_routes[registered[2]][registered[4]] # registered[5]

\* What a handler that returns a bare body lets the caller receive.
BareResponse(j, path) ==
    PyResponse(Response(PyStr(path),
        HandlerReturn(command_routes[j][path], PyStr(path), PyNone, PyNone, BodyIn),
        PyInt(StatusOk), PyNone))

ReturnsBareBody(j, path) ==
    /\ path \in DOMAIN command_routes[j]
    /\ HandlerReturn(command_routes[j][path], PyStr(path), PyNone, PyNone, BodyIn)[1]
            \notin {"Response", "tuple"}

\* C8: a call that expects a response, to a service whose handler for the
\* path returns a bare body, either ends by the timeout with no response
\* stored, or returns the Response with the called path, the handler's value
\* as body and status code 200.
C8_EndToEndCall ==
    \A t \in 1..Len(calls) :
        (/\ calls[t].expect_response
         /\ calls[t].pc = "done"
         /\ \A j \in Targets(calls[t].service_name) : ReturnsBareBody(j, calls[t].path))
        => \/ calls[t].raised = "TimeoutError" /\ ~transactions[t].event
           \/ /\ calls[t].raised = ""
              /\ \E j \in Targets(calls[t].service_name) :
                    calls[t].result = BareResponse(j, calls[t].path)

\* B's call of A's first_cmd has returned a Response.
C8_Witness ==
    \E t \in 1..Len(calls) :
        /\ calls[t].instance = "b1"
        /\ calls[t].service_name = "A"
        /\ calls[t].pc = "done"
        /\ calls[t].result # NoResult
        /\ calls[t].result[1] = "Response"

\* C9: a call that expects a response, to a service that has no handler for
\* the path, is never resolved: no response with its correlation id is in its
\* response queue, its event is never set, and when it ends it ends by
\* TimeoutError.
C9_NoRouteEndsInTimeout ==
    \A t \in 1..Len(calls) :
        (/\ calls[t].expect_response
         /\ calls[t].raised # "AttributeError"
         /\ \A j \in Targets(calls[t].service_name) :
                calls[t].path \notin DOMAIN command_routes[j])
        => /\ ~transactions[t].event
           /\ \A k \in 1..Len(queues[response_queue_name(calls[t].instance)]) :
                queues[response_queue_name(calls[t].instance)][k].correlation_id
                    # calls[t].message_id
           /\ calls[t].pc = "done" => calls[t].raised = "TimeoutError"

\* The command of such a call was dropped for its missing route and the call
\* has timed out.
C9_Witness ==
    \E t \in 1..Len(calls), j \in Instances :
        /\ calls[t].expect_response
        /\ j \in Targets(calls[t].service_name)
        /\ calls[t].path \notin DOMAIN command_routes[j]
        /\ <<j, "_on_command", PyStr(calls[t].path)>> \in warnings
        /\ calls[t].pc = "done"
        /\ calls[t].raised = "TimeoutError"

\* The events published on a path with a body after instance j had connected
\* with that path subscribed.
PublishedFor(j, path, body) ==
    {k \in 1..Len(published) :
        /\ published[k][2] = path
        /\ published[k][3] = body
        /\ j \in published[k][4]}

\* The deliveries of such an event waiting in j's event queue.
PendingFor(j, path, body) ==
    {k \in 1..Len(queues[event_queue_name(j)]) :
        queues[event_queue_name(j)][k].payload =
            ModelStr(EventFields, Event(PyStr(path), body, PyNone))}

\* C10: for an instance that registered an event handler for a path before it
\* connected, every event published on that path after the connect is handed
\* to that handler exactly once, with the path and the body published: the
\* handler's invocations and the deliveries still queued add up to the events
\* published.
C10_EventDeliveredOnce ==
    \A j \in Instances : \A path \in subscribed[j] :
        connect_pc[j] = "connected"
        => Count(handler_calls,
                 <<j, event_routes[j][path], PyStr(path), PyNone, BodyEvt>>)
            + Cardinality(PendingFor(j, path, BodyEvt))
           = Cardinality(PublishedFor(j, path, BodyEvt))

\* An event another instance published was handed to the handler once and
\* nothing of it is left in the queue.
C10_Witness ==
    \E j \in Instances : \E path \in subscribed[j] :
        /\ Len(published) = 1
        /\ published[1][1] # j
        /\ published[1][2] = path
        /\ queues[event_queue_name(j)] = <<>>
        /\ Count(handler_calls,
                 <<j, event_routes[j][path], PyStr(path), PyNone, BodyEvt>>) = 1

-----------------------------------------------------------------------------
(* The codec and the helper. *)

\* The value holds a Python tuple somewhere.
RECURSIVE HasTuple(_)
HasTuple(v) ==
    CASE v[1] = "tuple" -> TRUE
      [] v[1] = "list" -> \E k \in 1..Len(v[2]) : HasTuple(v[2][k])
      [] v[1] = "dict" -> \E k \in 1..Len(v[2]) : HasTuple(v[2][k][2])
      [] OTHER -> FALSE

FieldSet(kind) == {Fields(kind)[k] : k \in 1..Len(Fields(kind))}

\* C11: for every kind of message, loads(str(m)) succeeds and gives every
\* field of the kind the value m has for it, None for a None query or None
\* headers included, whenever the value is one of the wire format (null,
\* string, number, list, mapping); the one value that does not come back as
\* it was is a Python tuple, which comes back as a list.
C11_RoundTrip ==
    (message # NoRun /\ loaded # NoRun) =>
        /\ ~loaded.raised
        /\ DOMAIN loaded.values = FieldSet(message.kind)
        /\ \A f \in FieldSet(message.kind) :
                (loaded.values[f] = message.values[f]) <=> ~HasTuple(message.values[f])

C11_Witness ==
    /\ message # NoRun
    /\ loaded # NoRun
    /\ message.kind = "Command"
    /\ message.values.query = PyNone
    /\ message.values.headers = PyNone
    /\ message.values.body = BodyIn
    /\ loaded.values = message.values

\* The fields of the kind the payload has no member for.
MissingFields(w) ==
    {f \in FieldSet(w.kind) : \A k \in 1..Len(w.text[2]) : w.text[2][k][1] # f}

\* C12: for every kind of message, loads of a payload that lacks exactly one
\* field of the kind raises the ServiceError that names this field, and makes
\* no model.
C12_MissingFieldNamed ==
    (message = NoRun /\ loaded # NoRun /\ Cardinality(MissingFields(wire)) = 1) =>
        /\ loaded.raised
        /\ MissingFields(wire) = {loaded.field}
        /\ loaded.values = <<>>

C12_Witness ==
    /\ message = NoRun
    /\ loaded # NoRun
    /\ wire.kind = "Response"
    /\ MissingFields(wire) = {"status_code"}
    /\ loaded.raised
    /\ loaded.field = "status_code"

\* C13: path_to_routing_key returns for every string: the string without its
\* first character if that is a "/", every "/" left replaced by a "."; so
\* "/a/b/c" gives "a.b.c", "a/b" gives "a.b", and no result holds a "/".
C13_RoutingKey ==
    key_out # NoRun =>
        LET p == path_in[1]
            k == key_out[1]
            off == IF Len(p) > 0 /\ p[1] = "/" THEN 1 ELSE 0
        IN /\ Len(k) = Len(p) - off
           /\ \A n \in 1..Len(k) :
                k[n] = IF p[n + off] = "/" THEN "." ELSE p[n + off]
           /\ \A n \in 1..Len(k) : k[n] # "/"
           /\ p = <<"/", "a", "/", "b", "/", "c">> => k = <<"a", ".", "b", ".", "c">>
           /\ p = <<"a", "/", "b">> => k = <<"a", ".", "b">>

C13_Witness ==
    /\ path_in = << <<"/", "a", "/", "b", "/", "c">> >>
    /\ key_out = << <<"a", ".", "b", ".", "c">> >>

-----------------------------------------------------------------------------
(* Instances of one service. *)

\* The calls a response with this correlation id answers.
CallsOf(correlation_id) ==
    {t \in 1..Len(calls) :
        calls[t].expect_response /\ calls[t].message_id = correlation_id}

\* C14: with two instances of one service on one command queue, every
\* Response to a call waits in the response queue of the instance that issued
\* the call, a queue no other instance consumes from, and no other instance
\* ever takes such a Response, neither to store it nor to discard it.
C14_ResponsesNotStolen ==
    /\ \A q \in DOMAIN queues : \A k \in 1..Len(queues[q]) :
            queues[q][k].reply_to = NoReplyTo =>
                \A t \in CallsOf(queues[q][k].correlation_id) :
                    /\ q = response_queue_name(calls[t].instance)
                    /\ \A c \in consumers : c[1] = q => c[2] = calls[t].instance
    /\ \A w \in warnings :
            w[2] = "_on_response" => \A t \in CallsOf(w[3]) : w[1] = calls[t].instance
    /\ \A c \in correlated : \A t \in CallsOf(c[2]) : c[1] = calls[t].instance

C14_Witness ==
    /\ name["a1"] = name["b1"]
    /\ \E t1, t2 \in 1..Len(calls) :
            /\ calls[t1].instance = "a1"
            /\ calls[t2].instance = "b1"
            /\ calls[t1].pc = "done" /\ calls[t1].result[1] = "Response"
            /\ InFlight(t2)
            /\ queues[response_queue_name("b1")] # <<>>

-----------------------------------------------------------------------------
(* Shutdown. *)

\* The sequence read backwards.
Reverse(xs) == [k \in 1..Len(xs) |-> xs[Len(xs) + 1 - k]]

\* The connections of instance i that are still open.
StillOpen(i) == {r \in {"command", "response", "event"} : IsOpen(i, r)}

\* C15: once shutdown of a connected service has ended, by returning or by
\* raising, it has closed the connections in the reverse of the order connect
\* opened them in, and every connection is closed but the one whose close()
\* failed.
C15_ShutdownReverseAndIndependent ==
    \A i \in Instances :
        (connect_pc[i] = "connected" /\ shutdown_pc[i] \in {"done", "failed"}) =>
            /\ \E n \in 0..Len(resources[i]) :
                    released[i] = SubSeq(Reverse(resources[i]), 1, n)
            /\ Cardinality(StillOpen(i)) <= IF shutdown_pc[i] = "failed" THEN 1 ELSE 0

-----------------------------------------------------------------------------
(* Handlers that call. *)

\* The handler of this callback of instance i is suspended in call t.
SuspendedIn(i, callback, t) ==
    /\ TaskOf(i, callback) # Idle
    /\ TaskOf(i, callback)[1].nested = <<t>>
    /\ calls[t].pc # "done"

\* C16: while a command or an event handler of a service is suspended in a
\* call to another service, the service still takes the deliveries of its
\* response queue, so the Response to that call reaches the call (which then
\* returns it to the handler); and a handler only ends once its call is over.
C16_SuspendedHandlerDoesNotBlockResponses ==
    /\ \A i \in Instances, c \in {"_on_command", "_on_event"} :
        \A t \in 1..Len(calls) :
            (SuspendedIn(i, c, t) /\ queues[response_queue_name(i)] # <<>>) =>
                ENABLED on_response(i)
    /\ \A t \in 1..Len(calls) :
            (calls[t].owner # NoOwner /\ calls[t].pc # "done") =>
                SuspendedIn(calls[t].owner[1], calls[t].owner[2], t)

C16_Witness ==
    \E t \in 1..Len(calls) :
        /\ calls[t].owner = <<"b1", "_on_event">>
        /\ calls[t].pc = "done"
        /\ calls[t].result[1] = "Response"
        /\ event_task["b1"] = Idle
        /\ callback_errors = {}

-----------------------------------------------------------------------------
(* The table of transactions and the callbacks on bad deliveries. *)

\* C17: the table of transactions holds an id only while the call that
\* registered it is in progress: after the call has returned, timed out or
\* failed in any other way (its publish included) the id is gone, and the
\* table is empty when no call is in progress.
C17_TableOnlyWhileInProgress ==
    \A i \in Instances : \A c \in DOMAIN command_transactions[i] :
        \E t \in 1..Len(calls) :
            /\ calls[t].instance = i
            /\ calls[t].message_id = c
            /\ InFlight(t)

\* C18: a transaction gets its response and its event set once: a response
\* delivered for a transaction whose event is set already changes nothing.
C18_StoredOnce ==
    [][\A t \in DOMAIN transactions :
            transactions[t].event => transactions'[t] = transactions[t]]_vars

\* Instance i's command callback takes the delivery at the head of its queue.
CommandDelivered(i) ==
    /\ queues[command_queue_name(i)] # <<>>
    /\ queues'[command_queue_name(i)] = Tail(queues[command_queue_name(i)])

\* C19: a command delivery whose payload lacks a field of Command invokes no
\* handler, publishes no Response, reply_to or not, and lets no exception
\* leave _on_command.
C19_MalformedCommandDropped ==
    [][\A i \in Instances :
            (/\ CommandDelivered(i)
             /\ loads(CommandFields, Head(queues[command_queue_name(i)]).payload).raised)
            => /\ handler_calls' = handler_calls
               /\ command_task' = command_task
               /\ \A q \in DOMAIN queues :
                    q # command_queue_name(i) => queues'[q] = queues[q]
               /\ callback_errors' = callback_errors]_vars

\* C20: a response delivery for a registered transaction whose payload lacks
\* a field of Response lets no exception leave _on_response and leaves the
\* transaction as it is, without response, its event not set, in the table.
C20_MalformedResponseDropped ==
    [][\A i \in Instances :
            (/\ ResponseDelivered(i)
             /\ Head(queues[response_queue_name(i)]).correlation_id
                    \in DOMAIN command_transactions[i]
             /\ loads(ResponseFields, Head(queues[response_queue_name(i)]).payload).raised)
            => /\ transactions' = transactions
               /\ command_transactions' = command_transactions
               /\ callback_errors' = callback_errors]_vars

-----------------------------------------------------------------------------
(* The command dispatcher. *)

\* C21: a command delivery that decodes and whose path has no handler in the
\* table of command routes is logged and dropped: no handler is invoked, no
\* Response is published, the route tables and the table of transactions stay
\* as they are and no exception leaves _on_command.
C21_UnroutedCommandDropped ==
    [][\A i \in Instances :
            LET d == Head(queues[command_queue_name(i)])
                command == loads(CommandFields, d.payload)
            IN (/\ CommandDelivered(i)
                /\ ~command.raised
                /\ command.values.path[1] = "str"
                /\ command.values.path[2] \notin DOMAIN command_routes[i])
               => /\ handler_calls' = handler_calls
                  /\ command_task' = command_task
                  /\ sent' = sent
                  /\ \A q \in DOMAIN queues :
                        q # command_queue_name(i) => queues'[q] = queues[q]
                  /\ command_routes' = command_routes
                  /\ event_routes' = event_routes
                  /\ command_transactions' = command_transactions
                  /\ callback_errors' = callback_errors
                  /\ <<i, "_on_command", command.values.path>> \in warnings'
      ]_vars

\* A command that asked for a reply was dropped for its missing route.
C21_Witness ==
    \E t \in 1..Len(calls) :
        /\ calls[t].expect_response
        /\ calls[t].path = PathEvt
        /\ <<"a1", "_on_command", PyStr(PathEvt)>> \in warnings
        /\ queues[command_queue_name("a1")] = <<>>
        /\ handler_calls = <<>>
        /\ sent = <<>>

\* C22: a command delivery without reply_to whose path has a handler invokes
\* that handler once, with the path, query, headers and body of the command;
\* when the handler has returned nothing is published and nothing is raised.
C22_NoReplyToNoResponse ==
    [][\A i \in Instances :
            /\ LET d == Head(queues[command_queue_name(i)])
                   command == loads(CommandFields, d.payload)
               IN (/\ CommandDelivered(i)
                   /\ d.reply_to = NoReplyTo
                   /\ ~command.raised
                   /\ command.values.path[1] = "str"
                   /\ command.values.path[2] \in DOMAIN command_routes[i])
                  => /\ handler_calls' = CountUp(handler_calls,
                            <<i, command_routes[i][command.values.path[2]],
                              command.values.path, command.values.query,
                              command.values.headers, command.values.body>>)
                     /\ command_task'[i] # Idle
            /\ (/\ command_task[i] # Idle
                /\ command_task'[i] = Idle
                /\ command_task[i][1].reply_to = NoReplyTo)
               => /\ sent' = sent
                  /\ queues' = queues
                  /\ handler_calls' = handler_calls
                  /\ callback_errors' = callback_errors
      ]_vars

\* The handler of a command without reply_to has run once and has returned.
C22_Witness ==
    /\ \E t \in 1..Len(calls) :
            ~calls[t].expect_response /\ calls[t].path = PathCmd /\ calls[t].pc = "done"
    /\ Len(calls) = 1
    /\ Count(handler_calls,
             <<"a1", "first_cmd", PyStr(PathCmd), PyNone, PyNone, BodyIn>>) = 1
    /\ command_task["a1"] = Idle
    /\ sent = <<>>

\* The call has ended by its timeout.
TimedOut(t) == calls[t].raised = "TimeoutError"

\* C26: the timeout of a call cancels nothing on the other side: the step
\* that times the call out leaves the queues and the handlers alone, the
\* handler of the call's command still ends by publishing its Response to the
\* caller's response queue, and that Response, taken by the caller's
\* _on_response after the timeout, changes no call and no transaction and
\* raises nothing.
C26_TimeoutDoesNotCancelRemote ==
    [][ /\ \A t \in 1..Len(calls) :
            (calls[t].pc = "wait" /\ TimedOut(t)')
            => /\ queues' = queues
               /\ command_task' = command_task
               /\ sent' = sent
        /\ \A i \in Instances : \A t \in 1..Len(calls) :
            (/\ TimedOut(t)
             /\ command_task[i] # Idle
             /\ command_task'[i] = Idle
             /\ command_task[i][1].correlation_id = calls[t].message_id)
            => LET rq == response_queue_name(calls[t].instance)
               IN /\ Len(sent') = Len(sent) + 1
                  /\ sent'[Len(sent')][2].routing_key = rq
                  /\ sent'[Len(sent')][2].correlation_id = calls[t].message_id
                  /\ Len(queues'[rq]) = Len(queues[rq]) + 1
                  /\ queues'[rq][Len(queues'[rq])].correlation_id = calls[t].message_id
        /\ \A t \in 1..Len(calls) :
            LET i == calls[t].instance
            IN (/\ TimedOut(t)
                /\ ResponseDelivered(i)
                /\ Head(queues[response_queue_name(i)]).correlation_id
                        = calls[t].message_id)
               => /\ calls' = calls
                  /\ transactions' = transactions
                  /\ command_transactions' = command_transactions
                  /\ callback_errors' = callback_errors
      ]_vars

\* A call has timed out, the Response to its command was published all the
\* same and its caller has discarded it.
C26_Witness ==
    \E t \in 1..Len(calls) :
        /\ TimedOut(t)
        /\ \E k \in 1..Len(sent) : sent[k][2].correlation_id = calls[t].message_id
        /\ <<calls[t].instance, "_on_response", calls[t].message_id>> \in warnings
        /\ ~transactions[t].event

\* The Response a return value of the handler stands for: a Response itself,
\* a tuple of three, or a body.
ResponseFor(command_path, returned) ==
    IF returned[1] = "Response" THEN returned[2]
    ELSE IF returned[1] = "tuple" /\ Len(returned[2]) = 3
    THEN Response(command_path, returned[2][1], returned[2][2], returned[2][3])
    ELSE Response(command_path, returned, PyInt(StatusOk), PyNone)

\* The handler of instance i returns in this step to a command with a reply_to.
HandlerReturnsToReply(i) ==
    /\ command_task[i] # Idle
    /\ command_task'[i] = Idle
    /\ HandlerRaised(command_task[i][1]) = ""
    /\ command_task[i][1].reply_to # NoReplyTo

\* C23: when the handler of a command with a reply_to returns, the Response
\* published is the value returned if that is a Response, the Response of the
\* command's path and the three values of a returned 3-tuple, and for every
\* other value the Response of the command's path with that value as body,
\* status code 200 and no headers.
C23_ResponseNormalised ==
    [][\A i \in Instances :
            HandlerReturnsToReply(i)
            => LET task == command_task[i][1]
                   command == task.command
                   returned == HandlerReturn(task.func, command.path, command.query,
                                             command.headers, command.body)
               IN /\ Len(sent') = Len(sent) + 1
                  /\ sent'[Len(sent')][2].payload =
                        ModelStr(ResponseFields, ResponseFor(command.path, returned))
      ]_vars

\* C24: every Response _on_command publishes goes to the RPC exchange under
\* the reply_to of the command's delivery as routing key and with the
\* correlation id of that delivery as message property; its payload has the
\* fields of a Response as members and none for the correlation id, and no queue but the ones
\* bound to that reply_to gets a message.
C24_ResponseAddressedByReplyTo ==
    [][\A i \in Instances :
            (command_task[i] # Idle /\ command_task'[i] = Idle)
            => LET task == command_task[i][1]
               IN /\ \/ sent' = sent /\ queues' = queues
                     \/ /\ Len(sent') = Len(sent) + 1
                        /\ SubSeq(sent', 1, Len(sent)) = sent
                        /\ LET m == sent'[Len(sent')][2]
                               members == {m.payload[2][k][1] :
                                                k \in 1..Len(m.payload[2])}
                           IN /\ sent'[Len(sent')][1] = i
                              /\ m.exchange_name = rpc_exchange_name
                              /\ m.routing_key = task.reply_to
                              /\ m.routing_key # NoReplyTo
                              /\ m.correlation_id = task.correlation_id
                              /\ members = FieldSet("Response")
                              /\ "correlation_id" \notin members
                              /\ \A q \in DOMAIN queues :
                                    IF <<rpc_exchange_name, task.reply_to, q>> \in bindings
                                    THEN /\ Len(queues'[q]) = Len(queues[q]) + 1
                                         /\ queues'[q][Len(queues'[q])] =
                                                Delivery(m.payload, NoReplyTo,
                                                         task.correlation_id)
                                    ELSE queues'[q] = queues[q]
      ]_vars

\* A Response made of a returned 3-tuple lies in the caller's response queue
\* under the correlation id of the caller's call.
C24_Witness ==
    /\ command_routes["a1"][PathCmd] = "tuple_cmd"
    /\ Len(sent) = 1
    /\ Len(calls) = 1
    /\ sent[1][2].routing_key = response_queue_name("b1")
    /\ sent[1][2].correlation_id = calls[1].message_id
    /\ queues[response_queue_name("b1")] =
            <<Delivery(sent[1][2].payload, NoReplyTo, calls[1].message_id)>>

-----------------------------------------------------------------------------
(* The event dispatcher. *)

\* The consumer of instance i takes the delivery at the head of its event queue.
EventDelivered(i) ==
    /\ queues[event_queue_name(i)] # <<>>
    /\ queues'[event_queue_name(i)] = Tail(queues[event_queue_name(i)])

\* C25: an event delivery that decodes is dispatched by the path of the
\* event as it stands: with that path in the table of event routes, the handler
\* registered for it, and no other, is invoked once with the path, the headers
\* and the body; without it, a warning is logged and no handler is invoked.
\* Neither _on_event nor the end of the handler publishes anything.
C25_EventDispatchedByExactPath ==
    [][\A i \in Instances :
            /\ LET d == Head(queues[event_queue_name(i)])
                   event == loads(EventFields, d.payload)
               IN (/\ EventDelivered(i)
                   /\ ~event.raised
                   /\ event.values.path[1] = "str")
                  => /\ IF event.values.path[2] \in DOMAIN event_routes[i]
                        THEN /\ handler_calls' = CountUp(handler_calls,
                                    <<i, event_routes[i][event.values.path[2]],
                                      event.values.path, event.values.headers,
                                      event.values.body>>)
                             /\ warnings' = warnings
                        ELSE /\ handler_calls' = handler_calls
                             /\ event_task' = event_task
                             /\ <<i, "_on_event", event.values.path>> \in warnings'
                     /\ \A q \in DOMAIN queues :
                            q # event_queue_name(i) => queues'[q] = queues[q]
                     /\ sent' = sent
                     /\ callback_errors' = callback_errors
            /\ (event_task[i] # Idle /\ event_task'[i] = Idle)
               => /\ queues' = queues
                  /\ sent' = sent
                  /\ handler_calls' = handler_calls
      ]_vars

\* One event has reached two services: the one that registered its path has
\* run the handler once, the one that registered the path without the leading
\* slash has logged it and run nothing.
C25_Witness ==
    /\ Len(published) = 1
    /\ published[1][2] = PathEvt
    /\ DOMAIN event_routes["a1"] = {PathEvt}
    /\ DOMAIN event_routes["b1"] = {PathAlias}
    /\ handler_calls =
            CountUp(<<>>, <<"a1", "foo_bar", PyStr(PathEvt), PyNone, BodyEvt>>)
    /\ <<"b1", "_on_event", PyStr(PathEvt)>> \in warnings
    /\ \A q \in DOMAIN queues : queues[q] = <<>>
    /\ event_task = [i \in Instances |-> Idle]

-----------------------------------------------------------------------------
(* Registration and the topology of connect. *)

\* The bindings and the consumers of a queue.
BindingsOf(q) == {b \in bindings : b[3] = q}

ConsumersOf(q) == {c \in consumers : c[1] = q}

\* This step is a registration of that kind.
Registers(kind) == registered' # registered /\ registered'[3] = kind

\* C27: the bindings of the event queue are made by connect alone: a
\* subscribe of a connected service stores its handler in the table of event
\* routes and binds nothing, and no step changes the bindings of the event
\* queue of a connected service.
C27_SubscribeAfterConnectBindsNothing ==
    [][ /\ Registers("subscribe") /\ connect_pc[registered'[2]] = "connected"
            => LET i == registered'[2]
                   path == registered'[4]
               IN /\ bindings' = bindings
                  /\ subscribed' = subscribed
                  /\ path \in DOMAIN event_routes'[i]
                  /\ path \notin DOMAIN event_routes[i]
                        => event_routes'[i][path] = registered'[5]
        /\ \A i \in Instances :
            connect_pc[i] = "connected"
            => BindingsOf(event_queue_name(i))' = BindingsOf(event_queue_name(i))
      ]_vars

\* Service B has subscribed to a path after its connect: the path is in its
\* table and its event queue has no binding.
C27_Witness ==
    /\ connect_pc["b1"] = "connected"
    /\ registered[2] = "b1" /\ registered[3] = "subscribe" /\ registered[6] = ""
    /\ DOMAIN event_routes["b1"] = {PathEvt}
    /\ subscribed["b1"] = {}
    /\ BindingsOf(event_queue_name("b1")) = {}

\* C28: when connect has returned, the command queue, named after the
\* service, is bound to the RPC exchange under the service name; the response
\* queue is bound to the RPC exchange under its own name; the event queue,
\* named after the service and "events", is bound to the events exchange under
\* the routing key of each path subscribed by then and under no other key; and
\* each of the three queues has the one consumer of its callback.
C28_TopologyAfterConnect ==
    \A i \in Instances :
        connect_pc[i] = "connected" =>
            /\ command_queue_name(i) = <<ServiceName(i)>>
            /\ event_queue_name(i) = <<ServiceName(i), "events">>
            /\ BindingsOf(command_queue_name(i)) =
                    {<<rpc_exchange_name, <<ServiceName(i)>>, command_queue_name(i)>>}
            /\ BindingsOf(response_queue_name(i)) =
                    {<<rpc_exchange_name, response_queue_name(i), response_queue_name(i)>>}
            /\ BindingsOf(event_queue_name(i)) =
                    {<<event_exchange_name, path_to_routing_key(p), event_queue_name(i)>> :
                        p \in subscribed[i]}
            /\ ConsumersOf(command_queue_name(i)) =
                    {<<command_queue_name(i), i, "_on_command">>}
            /\ ConsumersOf(response_queue_name(i)) =
                    {<<response_queue_name(i), i, "_on_response">>}
            /\ ConsumersOf(event_queue_name(i)) =
                    {<<event_queue_name(i), i, "_on_event">>}

\* Service B has connected with two event paths registered.
C28_Witness ==
    /\ connect_pc["b1"] = "connected"
    /\ subscribed["b1"] = Paths
    /\ Cardinality(BindingsOf(event_queue_name("b1"))) = 2

\* C30: route and subscribe keep tables of their own: a route changes the
\* table of command routes only and fails exactly when its path is a command
\* route already, a subscribe changes the table of event routes only and fails
\* exactly when its path is an event route already.
C30_RouteTablesIndependent ==
    [][ /\ Registers("route")
            => LET i == registered'[2]
                   path == registered'[4]
               IN /\ event_routes' = event_routes
                  /\ (registered'[6] = "ServiceError")
                        <=> path \in DOMAIN command_routes[i]
                  /\ DOMAIN command_routes'[i] = DOMAIN command_routes[i] \cup {path}
        /\ Registers("subscribe")
            => LET i == registered'[2]
                   path == registered'[4]
               IN /\ command_routes' = command_routes
                  /\ (registered'[6] = "ServiceError")
                        <=> path \in DOMAIN event_routes[i]
                  /\ DOMAIN event_routes'[i] = DOMAIN event_routes[i] \cup {path}
      ]_vars

\* One path is a command route and an event route of one service, and the
\* registration that came second did not fail.
C30_Witness ==
    /\ registered[1] = 2
    /\ registered[6] = ""
    /\ PathEvt \in DOMAIN command_routes["b1"]
    /\ PathEvt \in DOMAIN event_routes["b1"]

-----------------------------------------------------------------------------
(* Payloads with members the model does not know. *)

\* The names of the members of the payload.
Members(text) == {text[2][k][1] : k \in 1..Len(text[2])}

\* C29: loads of a payload that has every field of its kind makes a model of
\* exactly these fields, the same model as loads of the payload without its
\* other members; the payload read is left as it was.
C29_ExtraFieldsIgnored ==
    (message = NoRun /\ loaded # NoRun /\ MissingFields(wire) = {}) =>
        /\ ~loaded.raised
        /\ DOMAIN loaded.values = FieldSet(wire.kind)
        /\ loaded.values =
                loads(Fields(wire.kind),
                      <<"object", SelectSeq(wire.text[2],
                            LAMBDA kv : kv[1] \in FieldSet(wire.kind))>>).values
        /\ wire \in InboundPayloads

\* A Response payload with a member the model does not know was read.
C29_Witness ==
    /\ message = NoRun
    /\ loaded # NoRun
    /\ wire.kind = "Response"
    /\ "extra" \in Members(wire.text)
    /\ ~loaded.raised
    /\ loaded.values.body = BodyIn

-----------------------------------------------------------------------------
(* Events that reach a service, Responses that are due, calls that end. *)

\* C32: an event that decodes and that reached the event queue of a service
\* through a binding connect made of a subscribed path, paths that share a
\* routing key included, is handed to a handler and is not dropped for a
\* missing route.
C32_BoundEventsAreHandled ==
    [][\A i \in Instances :
            LET d == Head(queues[event_queue_name(i)])
                event == loads(EventFields, d.payload)
            IN (/\ EventDelivered(i)
                /\ ~event.raised
                /\ event.values.path[1] = "str"
                /\ \E p \in subscribed[i] :
                        path_to_routing_key(p) = path_to_routing_key(event.values.path[2]))
               => /\ warnings' = warnings
                  /\ event_task'[i] # Idle
                  /\ handler_calls' # handler_calls
      ]_vars

\* C33: when the handler of a command with a reply_to has ended, with a
\* return value of any shape or with an exception, _on_command has published
\* one Response to that reply_to.
C33_OneResponsePerCommand ==
    [][\A i \in Instances :
            (/\ command_task[i] # Idle
             /\ command_task'[i] = Idle
             /\ command_task[i][1].reply_to # NoReplyTo)
            => /\ Len(sent') = Len(sent) + 1
               /\ sent'[Len(sent')][2].routing_key = command_task[i][1].reply_to
               /\ callback_errors' = callback_errors
      ]_vars

\* C34: the end of a call, by return or by timeout, takes the call's own
\* entry out of command_transactions and nothing else: every other call of the
\* instance that is in flight keeps its entry, its transaction object and its
\* state; and once a call has ended, the Response to another call in flight
\* is still stored in that call's transaction.
C34_EndRemovesOwnEntryOnly ==
    [][\A t \in 1..Len(calls) : \A u \in 1..Len(calls) :
            LET i == calls[t].instance
                table == command_transactions[i]
            IN (/\ t # u
                /\ calls[u].instance = i
                /\ InFlight(u))
               => /\ (calls[t].pc = "wait" /\ calls'[t].pc = "done")
                     => /\ DOMAIN command_transactions'[i] =
                                DOMAIN table \ {calls[t].message_id}
                        /\ calls[u].message_id \in DOMAIN command_transactions'[i]
                        /\ command_transactions'[i][calls[u].message_id] =
                                table[calls[u].message_id]
                        /\ transactions'[u] = transactions[u]
                        /\ calls'[u] = calls[u]
                  /\ (/\ calls[t].pc = "done"
                      /\ calls[t].expect_response
                      /\ ResponseDelivered(i)
                      /\ Head(queues[response_queue_name(i)]).correlation_id
                            = calls[u].message_id
                      /\ ~loads(ResponseFields,
                                Head(queues[response_queue_name(i)]).payload).raised)
                     => /\ transactions'[u].event
                        /\ transactions'[u].response =
                                PyResponse(loads(ResponseFields,
                                    Head(queues[response_queue_name(i)]).payload).values)
      ]_vars

\* One call of service B has ended by its timeout; the other one, made
\* before it, is still in the table and has got its Response.
C34_Witness ==
    /\ Len(calls) = 2
    /\ calls[1].instance = calls[2].instance
    /\ TimedOut(2)
    /\ calls[1].pc = "wait"
    /\ calls[1].message_id \in DOMAIN command_transactions[calls[1].instance]
    /\ calls[2].message_id \notin DOMAIN command_transactions[calls[1].instance]
    /\ transactions[1].event
    /\ transactions[1].response # PyNone
    /\ \E k \in 1..Len(sent) : sent[k][2].correlation_id = calls[1].message_id

\* C31: every call that expects a response comes to its end, with the
\* Response stored for it or with the TimeoutError of wait_for, whether the
\* service called answers or not, given that its basic_publish completes and
\* its timer fires.
C31_CallsTerminate ==
    \A t \in 1..MaxCalls :
        (t <= Len(calls) /\ calls[t].expect_response)
        ~> (/\ t <= Len(calls)
            /\ calls[t].pc = "done"
            /\ \/ calls[t].raised = "" /\ calls[t].result # NoResult
               \/ calls[t].raised = "TimeoutError")

\* Both ends were reached: the call of the command without a handler has
\* timed out, the call of the command with one has returned its Response.
C31_Witness ==
    /\ Len(calls) = 2
    /\ calls[1].path = PathEvt
    /\ TimedOut(1)
    /\ calls[2].path = PathCmd
    /\ calls[2].pc = "done"
    /\ calls[2].raised = ""
    /\ calls[2].result # NoResult
    /\ command_transactions = [i \in Instances |-> <<>>]

====
